---- MODULE Spec2Model ----
(***************************************************************************)
(* Model of the Dart analyzer / test-skeleton generator skills             *)
(* (skills/code/analyze_dart.py, skills/code/generate_tests.py), of the    *)
(* test-report parser (skills/code/run_tests.py) and of the video tools    *)
(* (extract_keyframes.py, detect_anomaly_screens.py).                      *)
(*                                                                         *)
(* Text is a sequence of one-character strings.  An Optional[str] is a     *)
(* sequence of length 0 (None) or 1 (the value).                           *)
(***************************************************************************)
EXTENDS Integers, Sequences, FiniteSets, TLC

VARIABLES
    pc,          \* position of the modelled run
    param_str,   \* parse_parameters: the raw parameter text
    params,      \* parse_parameters: the returned List[Parameter]
    descriptor,  \* infer_test_cases: the Function descriptor
    test_cases,  \* infer_test_cases: the returned List[TestCase]
    file,        \* analyze: the file at file_path (path, readable, content)
    result,      \* analyze: the returned AnalysisResult
    dart_files,  \* analyze_dart.main: the files the glob yields, in order
    file_idx,    \* analyze_dart.main: position of the for loop in dart_files
    results,     \* analyze_dart.main: the list of AnalysisResult
    fs,          \* generate_tests.main: the file system
    run,         \* generate_tests.main: the last run (arguments, the file
                 \* system it started from, exit status, standard output)
    generated,   \* generate_test_code: the returned text
    generators,  \* the lookup tables of each TestGenerator instance
    calls,       \* the calls of infer_test_cases made so far, with results
    given_path,  \* get_test_file_path: the source path given
    test_path,   \* get_test_file_path: the returned path
    video,       \* the opened video: its frames, their similarity, and
                 \* the frame count the container reports
    frame_idx,   \* extract_keyframes, process_video: the loop's frame_idx
    report,      \* extract_keyframes, process_video: the returned dict
    similarity_threshold,   \* extract_keyframes: argument
    max_frames,  \* extract_keyframes: argument
    prev_frame,  \* extract_keyframes: the frame saved last, or None
    extracted_count,        \* extract_keyframes: number of frames saved
    keyframes,   \* extract_keyframes: the entries of the frames saved
    sample_interval,        \* process_video: argument
    analyze_calls,          \* process_video: the frame indices
                 \* detector.analyze_frame was called on, in order
    anomaly_frames,         \* process_video: the entries of the frames saved
    test_blocks, \* _generate_test_block: the lines of each test case's block
    json_output, \* parse_json_output: the lines of the output given
    lines_done,  \* parse_json_output: number of lines handled so far
    test_results \* parse_json_output: the list of TestResult built

vars == <<pc, param_str, params, descriptor, test_cases, file, result,
          dart_files, file_idx, results, fs, run, generated, generators,
          calls, given_path, test_path, video, frame_idx, report,
          similarity_threshold, max_frames, prev_frame, extracted_count,
          keyframes, sample_interval, analyze_calls, anomaly_frames,
          test_blocks, json_output, lines_done, test_results>>

batch_vars == <<dart_files, file_idx, results>>
gen_vars   == <<fs, run>>
call_vars  == <<generators, calls>>
path_vars  == <<given_path, test_path>>
video_vars == <<video, frame_idx, report>>
kf_vars    == <<similarity_threshold, max_frames, prev_frame, extracted_count,
                keyframes>>
pv_vars    == <<sample_interval, analyze_calls, anomaly_frames>>
block_vars == <<test_blocks>>
json_vars  == <<json_output, lines_done, test_results>>

----------------------------------------------------------------------------
(* Characters and Python string primitives                                 *)

Lower == {"a","b","c","d","e","f","g","h","i","j","k","l","m",
          "n","o","p","q","r","s","t","u","v","w","x","y","z"}
Upper == {"A","B","C","D","E","F","G","H","I","J","K","L","M",
          "N","O","P","Q","R","S","T","U","V","W","X","Y","Z"}
Digit == {"0","1","2","3","4","5","6","7","8","9"}

\* \w
WordChars == Lower \cup Upper \cup Digit \cup {"_"}
\* \s
SpaceChars == {" ", "\n", "\t"}
\* [\w<>,\?\s]
TypeChars == WordChars \cup SpaceChars \cup {"<", ">", ",", "?"}

None == << >>
Some(x) == << x >>

Min(S) == CHOOSE x \in S : \A y \in S : x <= y
Max(S) == CHOOSE x \in S : \A y \in S : x >= y

\* s[i..j] as Python s[i-1:j]
Slice(s, i, j) == IF j < i THEN << >> ELSE SubSeq(s, i, j)

\* first index k >= from with s[k] in C, or 0
FirstIn(s, from, C) ==
    LET S == {k \in from..Len(s) : s[k] \in C}
    IN IF S = {} THEN 0 ELSE Min(S)

\* first index k >= from with s[k] not in C, or Len(s)+1
FirstNotIn(s, from, C) ==
    LET S == {k \in from..Len(s) : s[k] \notin C}
    IN IF S = {} THEN Len(s) + 1 ELSE Min(S)

\* first index k >= from with s[k] in C, or Len(s)+1
FirstInOrEnd(s, from, C) ==
    LET S == {k \in from..Len(s) : s[k] \in C}
    IN IF S = {} THEN Len(s) + 1 ELSE Min(S)

\* last index k in from..to with s[k] not in C, or from - 1
LastNotIn(s, from, to, C) ==
    LET S == {k \in from..to : s[k] \notin C}
    IN IF S = {} THEN from - 1 ELSE Max(S)

\* s.startswith(w, i-1)
StartsWithAt(s, i, w) ==
    /\ i >= 1
    /\ i + Len(w) - 1 <= Len(s)
    /\ \A k \in 1..Len(w) : s[i + k - 1] = w[k]

\* s.find(w, from-1) + 1
Find(s, w, from) ==
    LET S == {k \in from..(Len(s) - Len(w) + 1) : StartsWithAt(s, k, w)}
    IN IF S = {} THEN 0 ELSE Min(S)

\* w in s
Contains(s, w) == Find(s, w, 1) # 0

\* s.strip()
Strip(s) ==
    LET Kept(S) == IF S = {} THEN << >> ELSE Slice(s, Min(S), Max(S))
    IN Kept({k \in 1..Len(s) : s[k] \notin SpaceChars})

\* s.split(c) for a one-character separator
RECURSIVE Split(_, _)
Split(s, c) ==
    LET At(k) ==
            IF k = 0 THEN << s >>
            ELSE << Slice(s, 1, k - 1) >> \o Split(Slice(s, k + 1, Len(s)), c)
    IN At(FirstIn(s, 1, {c}))

\* s.replace(w, r), w non-empty
RECURSIVE Replace(_, _, _)
Replace(s, w, r) ==
    LET At(k) ==
            IF k = 0 THEN s
            ELSE Slice(s, 1, k - 1) \o r \o Replace(Slice(s, k + Len(w), Len(s)), w, r)
    IN At(Find(s, w, 1))

\* s.count(c) for a one-character c
Count(s, c) == Cardinality({k \in 1..Len(s) : s[k] = c})

\* the sequences over S of length at most n
SeqsUpTo(S, n) == UNION {[1..k -> S] : k \in 0..n}

\* the concatenation of the sequences of ss
RECURSIVE Concat(_)
Concat(ss) ==
    IF Len(ss) = 0 THEN << >>
    ELSE IF Len(ss) = 1 THEN ss[1]
    ELSE Concat(SubSeq(ss, 1, Len(ss) \div 2))
            \o Concat(SubSeq(ss, Len(ss) \div 2 + 1, Len(ss)))

kw_required == <<"r","e","q","u","i","r","e","d">>

----------------------------------------------------------------------------
(* analyze_dart.py : DartAnalyzer.param_pattern                            *)

\* The part of param_pattern after the optional `required` group, matched
\* at index p:  ([\w<>,\?\s]+)?\s*(\w+)(?:\s*=\s*([^,\}\]]+))?
\* The type group is greedy and gives back one character at a time, so the
\* name group receives the last word character of the type-character run.
ParamRest(part, p) ==
    LET Default(eq, valBeg, valEnd) ==
            IF ~(eq <= Len(part) /\ part[eq] = "=" /\ valEnd >= eq + 1) THEN None
            ELSE IF valBeg <= valEnd THEN Some(Slice(part, valBeg, valEnd))
            ELSE Some(Slice(part, valEnd, valEnd))
        DefaultAt(eq) ==
            Default(eq, FirstNotIn(part, eq + 1, SpaceChars),
                    FirstInOrEnd(part, eq + 1, {",", "}", "]"}) - 1)
        Named(q) ==
            [matched  |-> TRUE,
             type_str |-> IF q > p THEN Some(Slice(part, p, q - 1)) ELSE None,
             name     |-> << part[q] >>,
             default  |-> DefaultAt(FirstNotIn(part, q + 1, SpaceChars))]
        Rest(W) == IF W = {} THEN [matched |-> FALSE] ELSE Named(Max(W))
    IN Rest({k \in p..(FirstNotIn(part, p, TypeChars) - 1) : part[k] \in WordChars})

\* param_pattern.match(part)
ParamPatternMatch(part) ==
    LET Pick(hasKw, kwRest, rest) ==
            IF hasKw /\ kwRest.matched
            THEN [required |-> Some(kw_required)] @@ kwRest
            ELSE [required |-> None] @@ rest
    IN Pick(/\ StartsWithAt(part, 1, kw_required)
            /\ Len(kw_required) + 1 <= Len(part)
            /\ part[Len(kw_required) + 1] \in SpaceChars,
            ParamRest(part, FirstNotIn(part, Len(kw_required) + 1, SpaceChars)),
            ParamRest(part, 1))

----------------------------------------------------------------------------
(* analyze_dart.py : DartAnalyzer.parse_parameters                         *)

Parameter(name, type, is_required, is_named, default_value) ==
    [name |-> name, type |-> type, is_required |-> is_required,
     is_named |-> is_named, default_value |-> default_value]

\* re.search(open [^close]* close, s): the text of group(1), or None
GroupSearch(s, open, close) ==
    LET Close(i, j) == IF j = 0 THEN None ELSE Some(Slice(s, i + 1, j - 1))
        Open(i) == IF i = 0 THEN None ELSE Close(i, FirstIn(s, i + 1, {close}))
    IN Open(FirstIn(s, 1, {open}))

\* re.sub(open [^close]* close, '', s)
RECURSIVE GroupRemove(_, _, _)
GroupRemove(s, open, close) ==
    LET Close(i, j) ==
            IF j = 0 THEN s
            ELSE Slice(s, 1, i - 1) \o GroupRemove(Slice(s, j + 1, Len(s)), open, close)
        Open(i) == IF i = 0 THEN s ELSE Close(i, FirstIn(s, i + 1, {close}))
    IN Open(FirstIn(s, 1, {open}))

\* params.append(Parameter(...)) for the match m of param_pattern, if any
ParameterOf(m, is_required, is_named) ==
    IF ~m.matched THEN << >>
    ELSE << Parameter(m.name,
                      IF m.type_str # None THEN Some(Strip(m.type_str[1])) ELSE None,
                      is_required, is_named,
                      IF m.default # None THEN Some(Strip(m.default[1])) ELSE None) >>

\* the body of a loop over the parts for the stripped text part
PartEntry(part, is_required, is_named) ==
    IF part = << >> THEN << >>
    ELSE ParameterOf(ParamPatternMatch(part), is_required, is_named)

\* one iteration of the positional loop (lines 119-133)
PositionalEntry(raw) == PartEntry(Strip(raw), TRUE, FALSE)

\* one iteration of the named loop (lines 137-154)
NamedEntry(raw) ==
    LET Entry(part) ==
            IF part = << >> THEN << >>
            ELSE ParameterOf(ParamPatternMatch(Strip(Replace(part, kw_required, << >>))),
                             Contains(part, kw_required), TRUE)
    IN Entry(Strip(raw))

\* the optional positional loop with is_required left True
OptionalEntry_required(raw) == PartEntry(Strip(raw), TRUE, FALSE)

\* one iteration of the optional positional loop (lines 158-172)
OptionalEntry(raw) == PartEntry(Strip(raw), FALSE, FALSE)

PositionalParams(s) ==
    LET Entries(parts) == Concat([k \in 1..Len(parts) |-> PositionalEntry(parts[k])])
    IN Entries(Split(GroupRemove(GroupRemove(s, "{", "}"), "[", "]"), ","))

NamedParams(s) ==
    LET Entries(parts) == Concat([k \in 1..Len(parts) |-> NamedEntry(parts[k])])
        Group(named_match) ==
            IF named_match = None THEN << >>
            ELSE Entries(Split(named_match[1], ","))
    IN Group(GroupSearch(s, "{", "}"))

OptionalParams(s) ==
    LET Entries(parts) == Concat([k \in 1..Len(parts) |-> OptionalEntry(parts[k])])
        Group(optional_match) ==
            IF optional_match = None THEN << >>
            ELSE Entries(Split(optional_match[1], ","))
    IN Group(GroupSearch(s, "[", "]"))

parse_parameters(s) ==
    IF Strip(s) = << >> THEN << >>
    ELSE PositionalParams(s) \o NamedParams(s) \o OptionalParams(s)

----------------------------------------------------------------------------
(* analyze_dart.py : the regular expressions of DartAnalyzer.analyze       *)
(* A match is computed as Python's backtracking matcher computes it: the   *)
(* first alternative, in priority order, that lets the whole pattern       *)
(* succeed.  Indices are 1-based; `last` is the index of the last matched  *)
(* character (match.end() in the source).                                  *)

kw_static     == <<"s","t","a","t","i","c">>
kw_async      == <<"a","s","y","n","c">>
kw_abstract   == <<"a","b","s","t","r","a","c","t">>
kw_class      == <<"c","l","a","s","s">>
kw_extends    == <<"e","x","t","e","n","d","s">>
kw_with       == <<"w","i","t","h">>
kw_implements == <<"i","m","p","l","e","m","e","n","t","s">>
kw_import     == <<"i","m","p","o","r","t">>
kw_part       == <<"p","a","r","t">>
kw_of         == <<"o","f">>

NoMatch == [matched |-> FALSE]

\* kw\s+ at index i: the index after the white space, or 0
KeywordSpace(t, i, kw) ==
    IF /\ i >= 1
       /\ StartsWithAt(t, i, kw)
       /\ i + Len(kw) <= Len(t)
       /\ t[i + Len(kw)] \in SpaceChars
    THEN FirstNotIn(t, i + Len(kw), SpaceChars)
    ELSE 0

\* ([\w<>,\?\s]+\s+)?(\w+)\s*\(([^)]*)\)\s*(?:async\s*)?[{=]  at index p.
\* The return-type group is a run of type characters, so the name is the
\* last word of the run that ends at the opening parenthesis.
SignatureAt(t, p) ==
    LET Body(runEnd, e, n, cp, last) ==
            IF cp = 0 THEN NoMatch
            ELSE IF last > Len(t) THEN NoMatch
            ELSE IF t[last] \notin {"{", "="} THEN NoMatch
            ELSE [matched     |-> TRUE,
                  return_type |-> IF n = p THEN None ELSE Some(Slice(t, p, n - 1)),
                  name        |-> Slice(t, n, e),
                  params      |-> Slice(t, runEnd + 1, cp - 1),
                  last        |-> last]
        After(runEnd, e, n, cp, x) ==
            Body(runEnd, e, n, cp,
                 IF StartsWithAt(t, x, kw_async)
                 THEN FirstNotIn(t, x + Len(kw_async), SpaceChars) ELSE x)
        Params(runEnd, e, n, cp) ==
            After(runEnd, e, n, cp, FirstNotIn(t, cp + 1, SpaceChars))
        Name(runEnd, e, n) ==
            IF \E k \in (e + 1)..(runEnd - 1) : t[k] \notin SpaceChars THEN NoMatch
            ELSE IF n # p /\ ~(n >= p + 2 /\ t[n - 1] \in SpaceChars) THEN NoMatch
            ELSE Params(runEnd, e, n, FirstIn(t, runEnd + 1, {")"}))
        NameEnd(runEnd, e) ==
            Name(runEnd, e, LastNotIn(t, p, e, WordChars) + 1)
        Run(runEnd, W) ==
            IF runEnd > Len(t) \/ W = {} THEN NoMatch
            ELSE IF t[runEnd] # "(" THEN NoMatch
            ELSE NameEnd(runEnd, Max(W))
        RunEnd(runEnd) ==
            Run(runEnd, {k \in p..(runEnd - 1) : t[k] \in WordChars})
    IN RunEnd(FirstNotIn(t, p, TypeChars))

\* (static\s+)?(async\s+)? followed by the signature, at index s0; the
\* match is reported as starting at index s
ModifiersAt(t, s, s0) ==
    LET Hit(m, static, async) ==
            [start |-> s, static |-> static, async |-> async] @@ m
        Plain(m) == IF m.matched THEN Hit(m, FALSE, FALSE) ELSE NoMatch
        Async(p2, m) ==
            IF p2 # 0 /\ m.matched THEN Hit(m, FALSE, TRUE)
            ELSE Plain(SignatureAt(t, s0))
        Static(p1, m) ==
            IF p1 # 0 /\ m.matched THEN Hit(m, TRUE, FALSE)
            ELSE Async(KeywordSpace(t, s0, kw_async),
                       SignatureAt(t, KeywordSpace(t, s0, kw_async)))
        StaticAsync(p1, p12, m) ==
            IF p12 # 0 /\ m.matched THEN Hit(m, TRUE, TRUE)
            ELSE Static(p1, SignatureAt(t, p1))
        AfterStatic(p1, p12) == StaticAsync(p1, p12, SignatureAt(t, p12))
        Modifiers(p1) == AfterStatic(p1, KeywordSpace(t, p1, kw_async))
    IN Modifiers(KeywordSpace(t, s0, kw_static))

\* function_pattern matched at line start s
function_pattern(t, s) == ModifiersAt(t, s, s)

\* method_pattern with a name that may be qualified by `Name.`
method_pattern_qualified(t, s) ==
    LET Qualified(p, q) ==
            ModifiersAt(t, s, IF q > p /\ q <= Len(t) /\ t[q] = "." THEN q + 1 ELSE p)
        Name(p) == Qualified(p, FirstNotIn(t, p, WordChars))
    IN Name(FirstNotIn(t, s, SpaceChars))

\* method_pattern matched at line start s: function_pattern after ^\s*
method_pattern(t, s) == ModifiersAt(t, s, FirstNotIn(t, s, SpaceChars))

\* one of the clauses  \s+with\s+([\w<>,\s]+)  /  \s+implements\s+(...)
\* at index e2, when the clause must be followed by the opening brace
ListClause(t, e2, kw) ==
    LET Text(x, a, w, tEnd) ==
            IF x = e2 \/ ~StartsWithAt(t, x, kw) THEN NoMatch
            ELSE IF w = a \/ tEnd - a < 2 THEN NoMatch
            ELSE IF tEnd > Len(t) THEN NoMatch
            ELSE IF t[tEnd] # "{" THEN NoMatch
            ELSE [matched |-> TRUE,
                  text    |-> IF tEnd > w THEN Slice(t, w, tEnd - 1)
                              ELSE Slice(t, tEnd - 1, tEnd - 1),
                  last    |-> tEnd]
        Keyword(x, a) ==
            Text(x, a, FirstNotIn(t, a, SpaceChars),
                 FirstNotIn(t, a, WordChars \cup SpaceChars \cup {"<", ">", ","}))
        Clause(x) == Keyword(x, x + Len(kw))
    IN Clause(FirstNotIn(t, e2, SpaceChars))

\* class_pattern matched at line start s
class_pattern(t, s) ==
    LET Hit(a, j, e, extends, mixins, implements, last) ==
            [matched |-> TRUE, start |-> s, abstract |-> a # 0,
             name |-> Slice(t, j, e - 1), extends |-> extends,
             mixins |-> mixins, implements |-> implements, last |-> last]
        Brace(a, j, e, extends, b) ==
            IF b <= Len(t) /\ t[b] = "{"
            THEN Hit(a, j, e, extends, None, None, b) ELSE NoMatch
        Implements(a, j, e, extends, e2, ic) ==
            IF ic.matched THEN Hit(a, j, e, extends, None, Some(ic.text), ic.last)
            ELSE Brace(a, j, e, extends, FirstNotIn(t, e2, SpaceChars))
        With(a, j, e, extends, e2, wc) ==
            IF wc.matched THEN Hit(a, j, e, extends, Some(wc.text), None, wc.last)
            ELSE Implements(a, j, e, extends, e2, ListClause(t, e2, kw_implements))
        Clauses(a, j, e, extends, e2) ==
            With(a, j, e, extends, e2, ListClause(t, e2, kw_with))
        Extends(a, j, e, y, z) ==
            IF y # 0 /\ z > y
            THEN Clauses(a, j, e, Some(Slice(t, y, z - 1)), z)
            ELSE Clauses(a, j, e, None, e)
        AfterName(a, j, e, y) ==
            Extends(a, j, e, y, FirstNotIn(t, y, WordChars \cup {"<", ">"}))
        NameEnd(a, j, e, x) ==
            AfterName(a, j, e, IF x > e THEN KeywordSpace(t, x, kw_extends) ELSE 0)
        Name(a, j, e) ==
            IF e = j THEN NoMatch
            ELSE NameEnd(a, j, e, FirstNotIn(t, e, SpaceChars))
        Class(a, j) ==
            IF j = 0 THEN NoMatch ELSE Name(a, j, FirstNotIn(t, j, WordChars))
        Abstract(a) == Class(a, KeywordSpace(t, IF a # 0 THEN a ELSE s, kw_class))
    IN Abstract(KeywordSpace(t, s, kw_abstract))

\* the indices at which ^ matches under re.MULTILINE
LineStarts(t) == {s \in 1..(Len(t) + 1) : s = 1 \/ t[s - 1] = "\n"}

\* pattern.finditer(t): the non-overlapping matches, scanning from `from`
RECURSIVE FindIterFrom(_, _)
FindIterFrom(all, from) ==
    LET Rest(m) == << m >> \o FindIterFrom(all, m.last + 1)
        First(S) == IF S = {} THEN << >> ELSE Rest(all[Min(S)])
    IN First({s \in DOMAIN all : s >= from /\ all[s].matched})

function_matches(t) ==
    FindIterFrom([s \in LineStarts(t) |-> function_pattern(t, s)], 1)

method_matches(t) ==
    FindIterFrom([s \in LineStarts(t) |-> method_pattern(t, s)], 1)

class_matches(t) ==
    FindIterFrom([s \in LineStarts(t) |-> class_pattern(t, s)], 1)

\* re.findall(r"import\s+['\"]([^'\"]+)['\"]", t), scanning from `from`
Quotes == {"'", "\""}

ImportAt(t, k) ==
    LET Target(q, r) ==
            IF r = 0 \/ r = q + 1 THEN NoMatch
            ELSE [matched |-> TRUE, target |-> Slice(t, q + 1, r - 1), last |-> r]
        Quote(q) ==
            IF q = 0 \/ q > Len(t) THEN NoMatch
            ELSE IF t[q] \notin Quotes THEN NoMatch
            ELSE Target(q, FirstIn(t, q + 1, Quotes))
    IN Quote(KeywordSpace(t, k, kw_import))

RECURSIVE ImportsFrom(_, _)
ImportsFrom(t, from) ==
    LET Rest(m) == << m.target >> \o ImportsFrom(t, m.last + 1)
        First(K) == IF K = {} THEN << >> ELSE Rest(ImportAt(t, Min(K)))
    IN First({k \in from..Len(t) : ImportAt(t, k).matched})

\* re.search(r"part\s+of\s+['\"]?([^'\";\s]+)", t): group(1), or None
PartOfAt(t, k) ==
    LET Target(b, e) ==
            IF b > Len(t) \/ e = b THEN NoMatch
            ELSE [matched |-> TRUE,
                  target  |-> Slice(t, b, IF e = 0 THEN Len(t) ELSE e - 1)]
        Begin(b) == Target(b, FirstIn(t, b, Quotes \cup SpaceChars \cup {";"}))
        Of(q) ==
            IF q = 0 THEN NoMatch
            ELSE Begin(IF q <= Len(t) /\ t[q] \in Quotes THEN q + 1 ELSE q)
        Part(o) == IF o = 0 THEN NoMatch ELSE Of(KeywordSpace(t, o, kw_of))
    IN Part(KeywordSpace(t, k, kw_part))

PartOf(t) ==
    LET First(K) == IF K = {} THEN None ELSE Some(PartOfAt(t, Min(K)).target)
    IN First({k \in 1..Len(t) : PartOfAt(t, k).matched})

----------------------------------------------------------------------------
(* analyze_dart.py : extract_doc_comment, extract_body_preview,            *)
(* parse_function                                                          *)

Function(name, return_type, parameters, is_async, is_static, doc_comment, line_number, body_preview) ==
    [name |-> name, return_type |-> return_type, parameters |-> parameters,
     is_async |-> is_async, is_static |-> is_static,
     is_private |-> StartsWithAt(name, 1, <<"_">>),
     doc_comment |-> doc_comment, line_number |-> line_number,
     body_preview |-> body_preview]

\* sep.join(ss)
RECURSIVE Join(_, _)
Join(ss, sep) ==
    IF Len(ss) = 0 THEN << >>
    ELSE IF Len(ss) = 1 THEN ss[1]
    ELSE Join(SubSeq(ss, 1, Len(ss) \div 2), sep) \o sep
            \o Join(SubSeq(ss, Len(ss) \div 2 + 1, Len(ss)), sep)

EndsWith(s, w) == Len(s) >= Len(w) /\ StartsWithAt(s, Len(s) - Len(w) + 1, w)

\* the while loop of extract_doc_comment; idx is the 0-based line index
RECURSIVE DocCommentWalk(_, _, _)
DocCommentWalk(lines, idx, comments) ==
    LET Line(line) ==
            IF StartsWithAt(line, 1, <<"/","/","/">>)
            THEN DocCommentWalk(lines, idx - 1,
                                << Strip(Slice(line, 4, Len(line))) >> \o comments)
            ELSE IF \/ StartsWithAt(line, 1, <<"/","*">>)
                    \/ EndsWith(line, <<"*","/">>)
                    \/ StartsWithAt(line, 1, <<"*">>)
            THEN DocCommentWalk(lines, idx - 1, comments)
            ELSE IF line = << >>
            THEN DocCommentWalk(lines, idx - 1, comments)
            ELSE comments
    IN IF idx < 0 THEN comments ELSE Line(Strip(lines[idx + 1]))

extract_doc_comment(lines, line_idx) ==
    LET Joined(comments) ==
            IF comments = << >> THEN None ELSE Some(Join(comments, <<"\n">>))
    IN Joined(DocCommentWalk(lines, line_idx - 1, << >>))

\* the depth-counting loops of lines 190-199, 300-309 and 354-363: the
\* index of the brace closing the one at index i, or 0 when there is none
RECURSIVE BraceScan(_, _, _)
BraceScan(t, i, depth) ==
    LET Brace(k) ==
            IF k = 0 THEN 0
            ELSE IF t[k] = "{" THEN BraceScan(t, k + 1, depth + 1)
            ELSE IF depth - 1 = 0 THEN k
            ELSE BraceScan(t, k + 1, depth - 1)
    IN Brace(FirstIn(t, i, {"{", "}"}))

\* s[:n] of a list
Take(ss, n) == IF Len(ss) <= n THEN ss ELSE SubSeq(ss, 1, n)

max_lines == 5

\* extract_body_preview(content, start_pos); from = start_pos + 1
extract_body_preview(content, from) ==
    LET Arrow(arrow_pos, end_pos) ==
            IF arrow_pos # 0 /\ end_pos # 0
            THEN Strip(Slice(content, arrow_pos, end_pos))
            ELSE << >>
        ArrowFrom(arrow_pos) == Arrow(arrow_pos, FirstIn(content, arrow_pos, {";"}))
        Body(brace_pos, close) ==
            Join(Take(Split(Slice(content, brace_pos,
                                  IF close = 0 THEN brace_pos ELSE close), "\n"),
                      max_lines),
                 <<"\n">>)
        Brace(brace_pos) ==
            IF brace_pos = 0 THEN ArrowFrom(Find(content, <<"=",">">>, from))
            ELSE Body(brace_pos, BraceScan(content, brace_pos, 0))
    IN Brace(FirstIn(content, from, {"{"}))

\* content[:start].count('\n') + 1
LineNumberAt(content, start) == Count(Slice(content, 1, start - 1), "\n") + 1

\* parse_function(match, lines, content)
parse_function(match, lines, content) ==
    LET Parsed(line_number) ==
            Function(match.name,
                     IF match.return_type # None
                     THEN Some(Strip(match.return_type[1])) ELSE None,
                     parse_parameters(match.params),
                     match.async,
                     match.static,
                     extract_doc_comment(lines, line_number - 1),
                     line_number,
                     extract_body_preview(content, match.last + 1))
    IN Parsed(LineNumberAt(content, match.start))

----------------------------------------------------------------------------
(* analyze_dart.py : DartAnalyzer.analyze                                  *)

DartClass(name, is_abstract, extends, implements, mixins, methods, doc_comment, line_number) ==
    [name |-> name, is_abstract |-> is_abstract, extends |-> extends,
     implements |-> implements, mixins |-> mixins, methods |-> methods,
     constructors |-> << >>, fields |-> << >>,
     doc_comment |-> doc_comment, line_number |-> line_number]

AnalysisResult(file_path, top_level_functions, classes, imports, part_of, errors) ==
    [file_path |-> file_path, top_level_functions |-> top_level_functions,
     classes |-> classes, imports |-> imports, part_of |-> part_of,
     errors |-> errors]

\* [x.strip() for x in (group or '').split(',') if x.strip()]
NameList(group) ==
    LET Kept(x) == IF x # << >> THEN << x >> ELSE << >>
        Names(parts) == Concat([k \in 1..Len(parts) |-> Kept(Strip(parts[k]))])
    IN Names(Split(IF group # None THEN group[1] ELSE << >>, ","))

\* lines 299-311: <<class_start, class_end>>, the indices of the first and
\* the last character of class_body
ClassBody(content, class_match) ==
    LET Range(class_start, close) ==
            << class_start, IF close = 0 THEN class_start ELSE close >>
    IN Range(class_match.last, BraceScan(content, class_match.last, 0))

\* lines 326-334 without the constructor test of line 329
MethodEntry_all(method_match, class_name, line_number, lines, class_body) ==
    << [parse_function(method_match, lines, class_body) EXCEPT
          !.line_number =
              line_number + Count(Slice(class_body, 1, method_match.start - 1), "\n")] >>

\* the loop body of lines 326-334 for one method match
MethodEntry(method_match, class_name, line_number, lines, class_body) ==
    IF method_match.name = class_name THEN << >>
    ELSE << [parse_function(method_match, lines, class_body) EXCEPT
               !.line_number =
                   line_number + Count(Slice(class_body, 1, method_match.start - 1), "\n")] >>

\* the loop body of lines 288-347 for one class match
ClassEntry(class_match, lines, content) ==
    LET Methods(line_number, class_body, ms) ==
            Concat([k \in 1..Len(ms) |->
                      MethodEntry(ms[k], class_match.name, line_number, lines, class_body)])
        Class(line_number, class_body) ==
            DartClass(class_match.name,
                      class_match.abstract,
                      class_match.extends,
                      NameList(class_match.implements),
                      NameList(class_match.mixins),
                      Methods(line_number, class_body, method_matches(class_body)),
                      extract_doc_comment(lines, line_number - 1),
                      line_number)
        Body(line_number, range) ==
            Class(line_number, Slice(content, range[1], range[2]))
    IN Body(LineNumberAt(content, class_match.start), ClassBody(content, class_match))

\* lines 352-364 with the range ending at the class header
ClassRange_header(content, class_match) ==
    << class_match.start, class_match.last >>

\* lines 352-364: one entry of class_ranges, as the indices of the first
\* and the last character it covers
ClassRange(content, class_match) ==
    LET Range(close) ==
            << class_match.start, IF close = 0 THEN class_match.last ELSE close >>
    IN Range(BraceScan(content, class_match.last, 0))

\* TopLevelEntry without the test of line 374 (`func.name not in [...]`)
TopLevelEntry_entry_points(func_match, class_ranges, lines, content) ==
    IF \E k \in 1..Len(class_ranges) :
          /\ class_ranges[k][1] <= func_match.start
          /\ func_match.start <= class_ranges[k][2]
    THEN << >>
    ELSE << parse_function(func_match, lines, content) >>

\* the loop body of lines 366-375 for one function match
TopLevelEntry(func_match, class_ranges, lines, content) ==
    LET Kept(fn) ==
            IF fn.name \in {<<"m","a","i","n">>, <<"b","u","i","l","d">>} THEN << >>
            ELSE << fn >>
    IN IF \E k \in 1..Len(class_ranges) :
              /\ class_ranges[k][1] <= func_match.start
              /\ func_match.start <= class_ranges[k][2]
       THEN << >>
       ELSE Kept(parse_function(func_match, lines, content))

ReadError == "file read error"

\* the except branch with the exception swallowed
ReadFailure_silent(f) ==
    AnalysisResult(f.path, << >>, << >>, << >>, None, << >>)

\* the except branch of lines 244-252
ReadFailure(f) ==
    AnalysisResult(f.path, << >>, << >>, << >>, None, << ReadError >>)

\* analyze(file_path); f is the file found at file_path
analyze(f) ==
    LET TopLevel(content, lines, fms, class_ranges) ==
            Concat([k \in 1..Len(fms) |->
                      TopLevelEntry(fms[k], class_ranges, lines, content)])
        Classes(content, lines, cms) ==
            [k \in 1..Len(cms) |-> ClassEntry(cms[k], lines, content)]
        Ranges(content, cms) ==
            [k \in 1..Len(cms) |-> ClassRange(content, cms[k])]
        Result(content, lines, cms) ==
            AnalysisResult(
                f.path,
                TopLevel(content, lines, function_matches(content), Ranges(content, cms)),
                Classes(content, lines, cms),
                ImportsFrom(content, 1),
                PartOf(content),
                << >>)
        Read(content) == Result(content, Split(content, "\n"), class_matches(content))
    IN IF ~f.readable THEN ReadFailure(f) ELSE Read(f.content)

----------------------------------------------------------------------------
(* generate_tests.py : TestGenerator lookup tables                         *)
(* A dict is a sequence of <<key, value>> pairs in insertion order.  The   *)
(* Japanese literals of test names, descriptions and placeholders are      *)
(* written as ASCII tokens.                                                *)

t_String == <<"S","t","r","i","n","g">>
t_int    == <<"i","n","t">>
t_double == <<"d","o","u","b","l","e">>
t_num    == <<"n","u","m">>
t_bool   == <<"b","o","o","l">>
t_List   == <<"L","i","s","t">>
t_Map    == <<"M","a","p">>
t_dynamic == <<"d","y","n","a","m","i","c">>

DictHas(d, k) == \E i \in 1..Len(d) : d[i][1] = k
DictGet(d, k) == d[CHOOSE i \in 1..Len(d) : d[i][1] = k][2]
DictSet(d, k, v) ==
    IF DictHas(d, k)
    THEN [i \in 1..Len(d) |-> IF d[i][1] = k THEN <<k, v>> ELSE d[i]]
    ELSE Append(d, <<k, v>>)
DictKeys(d) == [i \in 1..Len(d) |-> d[i][1]]

\* self.type_test_values (only the 'normal' lists are read)
type_test_values ==
    << <<t_String, [normal |-> <<"\"valid string\"", "\"hello world\"">>]>>,
       <<t_int,    [normal |-> <<"1", "42", "100">>]>>,
       <<t_double, [normal |-> <<"1.0", "3.14", "100.5">>]>>,
       <<t_bool,   [normal |-> <<"true", "false">>]>>,
       <<t_List,   [normal |-> <<"[1, 2, 3]", "[\"a\", \"b\"]">>]>>,
       <<t_Map,    [normal |-> <<"{\"key\": \"value\"}", "{\"a\": 1, \"b\": 2}">>]>> >>

\* self.function_patterns: name substring -> keys of its config
function_patterns ==
    << << <<"v","a","l","i","d","a","t","e">>, {"expected_return", "test_true_false"} >>,
       << <<"i","s">>,                         {"expected_return", "test_true_false"} >>,
       << <<"h","a","s">>,                     {"expected_return", "test_true_false"} >>,
       << <<"c","a","n">>,                     {"expected_return", "test_true_false"} >>,
       << <<"c","h","e","c","k">>,             {"expected_return", "test_true_false"} >>,
       << <<"p","a","r","s","e">>,             {"test_error"} >>,
       << <<"c","o","n","v","e","r","t">>,     {"test_error"} >>,
       << <<"f","o","r","m","a","t">>,         {"test_string"} >>,
       << <<"c","a","l","c","u","l","a","t","e">>, {"test_numeric"} >>,
       << <<"g","e","t">>,                     {"test_null"} >>,
       << <<"f","i","n","d">>,                 {"test_null"} >>,
       << <<"f","e","t","c","h">>,             {"test_async", "test_error"} >>,
       << <<"l","o","a","d">>,                 {"test_async", "test_error"} >>,
       << <<"s","a","v","e">>,                 {"test_async", "test_error"} >>,
       << <<"d","e","l","e","t","e">>,         {"test_async", "test_error"} >>,
       << <<"c","r","e","a","t","e">>,         {"test_error"} >>,
       << <<"u","p","d","a","t","e">>,         {"test_error"} >>  >>

\* TestGenerator(): the tables a new instance holds (__init__)
TestGenerator ==
    [type_test_values |-> type_test_values,
     function_patterns |-> function_patterns]

UpperSeq == <<"A","B","C","D","E","F","G","H","I","J","K","L","M",
              "N","O","P","Q","R","S","T","U","V","W","X","Y","Z">>
LowerSeq == <<"a","b","c","d","e","f","g","h","i","j","k","l","m",
              "n","o","p","q","r","s","t","u","v","w","x","y","z">>

\* s.lower()
ToLower(s) ==
    [i \in 1..Len(s) |->
        IF s[i] \in Upper
        THEN LowerSeq[CHOOSE k \in 1..26 : UpperSeq[k] = s[i]]
        ELSE s[i]]

PlaceholderExpected  == "/* set expected value */"
PlaceholderSanitized == "/* check it is sanitized */"
PlaceholderSafe      == "/* check it is handled safely */"
PlaceholderTodo      == "/* TODO: set value */"
XssProbe == "\"<script>alert(1)</script>\""
SqlProbe == "\"'; DROP TABLE users;--\""

TestCase(name, description, category, input_values, expected, assertion_type) ==
    [name |-> name, description |-> description, category |-> category,
     input_values |-> input_values, expected |-> expected,
     assertion_type |-> assertion_type]

\* (param.type or 'dynamic').replace('?', '').strip()
BareType(param) ==
    Strip(Replace(IF param.type # None THEN param.type[1] ELSE t_dynamic, <<"?">>, << >>))

NumericTypes == {t_int, t_double, t_num}

\* _generate_valid_inputs
RECURSIVE ValidInputsFrom(_, _, _, _)
ValidInputsFrom(self, ps, k, inputs) ==
    LET Value(param_type) ==
            IF DictHas(self.type_test_values, param_type)
            THEN (IF DictGet(self.type_test_values, param_type).normal # << >>
                  THEN DictGet(self.type_test_values, param_type).normal[1]
                  ELSE "null")
            ELSE IF Contains(param_type, t_String) THEN "\"valid_value\""
            ELSE IF param_type \in NumericTypes THEN "1"
            ELSE IF param_type = t_bool THEN "true"
            ELSE PlaceholderTodo
    IN IF k > Len(ps) THEN inputs
       ELSE ValidInputsFrom(self, ps, k + 1,
                            DictSet(inputs, ps[k].name, Value(BareType(ps[k]))))

generate_valid_inputs(self, func) ==
    ValidInputsFrom(self, func.parameters, 1, << >>)

\* _generate_invalid_inputs
RECURSIVE InvalidInputsFrom(_, _, _)
InvalidInputsFrom(ps, k, inputs) ==
    LET Value(param_type) ==
            IF Contains(param_type, t_String) THEN "\"\""
            ELSE IF param_type \in NumericTypes THEN "-1"
            ELSE IF param_type = t_bool THEN "false"
            ELSE "null"
    IN IF k > Len(ps) THEN inputs
       ELSE InvalidInputsFrom(ps, k + 1, DictSet(inputs, ps[k].name, Value(BareType(ps[k]))))

generate_invalid_inputs(func) == InvalidInputsFrom(func.parameters, 1, << >>)

\* _generate_bool_tests
generate_bool_tests(self, func) ==
    << TestCase(func.name \o <<"_valid input_returns true">>,
                func.name \o <<" returns true for valid input">>,
                "normal", generate_valid_inputs(self, func), "true", "isTrue"),
       TestCase(func.name \o <<"_invalid input_returns false">>,
                func.name \o <<" returns false for invalid input">>,
                "normal", generate_invalid_inputs(func), "false", "isFalse") >>

\* _generate_normal_tests
generate_normal_tests(self, func) ==
    << TestCase(func.name \o <<"_normal">>,
                func.name \o <<" works normally">>,
                "normal", generate_valid_inputs(self, func), PlaceholderExpected, "equals") >>

\* the loop body of _generate_boundary_tests without the negative probe
BoundaryTestsOf_zero(func, param) ==
    LET Tests(param_type, prefix) ==
            IF param_type = t_String THEN
                << TestCase(prefix \o <<" is empty string">>,
                            param.name \o <<" given an empty string">>,
                            "boundary", << <<param.name, "\"\"">> >>,
                            PlaceholderExpected, "equals") >>
            ELSE IF param_type \in NumericTypes THEN
                << TestCase(prefix \o <<" is zero">>,
                            param.name \o <<" given 0">>,
                            "boundary", << <<param.name, "0">> >>,
                            PlaceholderExpected, "equals") >>
            ELSE << >>
    IN IF param.type = None THEN << >>
       ELSE Tests(Strip(Replace(param.type[1], <<"?">>, << >>)),
                  func.name \o <<"_">> \o param.name)

\* the tests _generate_boundary_tests appends for one parameter
BoundaryTestsOf(func, param) ==
    LET Tests(param_type, prefix) ==
            IF param_type = t_String THEN
                << TestCase(prefix \o <<" is empty string">>,
                            param.name \o <<" given an empty string">>,
                            "boundary", << <<param.name, "\"\"">> >>,
                            PlaceholderExpected, "equals") >>
            ELSE IF param_type \in NumericTypes THEN
                << TestCase(prefix \o <<" is zero">>,
                            param.name \o <<" given 0">>,
                            "boundary", << <<param.name, "0">> >>,
                            PlaceholderExpected, "equals"),
                   TestCase(prefix \o <<" is negative">>,
                            param.name \o <<" given a negative number">>,
                            "boundary", << <<param.name, "-1">> >>,
                            PlaceholderExpected, "equals") >>
            ELSE IF Contains(param_type, t_List) THEN
                << TestCase(prefix \o <<" is empty list">>,
                            param.name \o <<" given an empty list">>,
                            "boundary", << <<param.name, "[]">> >>,
                            PlaceholderExpected, "equals") >>
            ELSE << >>
    IN IF param.type = None THEN << >>
       ELSE Tests(Strip(Replace(param.type[1], <<"?">>, << >>)),
                  func.name \o <<"_">> \o param.name)

\* _generate_boundary_tests
generate_boundary_tests(func) ==
    Concat([k \in 1..Len(func.parameters) |-> BoundaryTestsOf(func, func.parameters[k])])

\* ErrorTestsOf without the test of param.is_required
ErrorTestsOf_optional(func, param) ==
    IF param.type # None /\ ~Contains(param.type[1], <<"?">>)
    THEN << TestCase(func.name \o <<"_">> \o param.name \o <<" is null_exception">>,
                     param.name \o <<" given null raises an exception">>,
                     "error", << <<param.name, "null">> >>, "TypeError", "throws") >>
    ELSE << >>

\* the tests _generate_error_tests appends for one parameter
ErrorTestsOf(func, param) ==
    IF param.type # None /\ ~Contains(param.type[1], <<"?">>) /\ param.is_required
    THEN << TestCase(func.name \o <<"_">> \o param.name \o <<" is null_exception">>,
                     param.name \o <<" given null raises an exception">>,
                     "error", << <<param.name, "null">> >>, "TypeError", "throws") >>
    ELSE << >>

\* _generate_error_tests
generate_error_tests(func) ==
    Concat([k \in 1..Len(func.parameters) |-> ErrorTestsOf(func, func.parameters[k])])

\* the tests _generate_security_tests appends for one parameter
SecurityTestsOf(func, param) ==
    IF param.type # None /\ Contains(param.type[1], t_String)
    THEN << TestCase(func.name \o <<"_">> \o param.name \o <<" with script tag">>,
                     param.name \o <<" given an XSS string">>,
                     "security", << <<param.name, XssProbe>> >>,
                     PlaceholderSanitized, "equals"),
            TestCase(func.name \o <<"_">> \o param.name \o <<" with SQL injection">>,
                     param.name \o <<" given an SQL injection string">>,
                     "security", << <<param.name, SqlProbe>> >>,
                     PlaceholderSafe, "equals") >>
    ELSE << >>

\* _generate_security_tests
generate_security_tests(func) ==
    Concat([k \in 1..Len(func.parameters) |-> SecurityTestsOf(func, func.parameters[k])])

\* lines 110-113 from entry k of the table on: `patterns` is a dict of its
\* own that update() copies the keys of each matching config into; the
\* table is only read
RECURSIVE MergeFrom(_, _, _, _)
MergeFrom(fp, func_lower, k, patterns) ==
    IF k > Len(fp) THEN [patterns |-> patterns, function_patterns |-> fp]
    ELSE IF Contains(func_lower, fp[k][1])
    THEN MergeFrom(fp, func_lower, k + 1, patterns \cup fp[k][2])
    ELSE MergeFrom(fp, func_lower, k + 1, patterns)

\* lines 110-113 with `patterns` bound to the first matching config itself
\* (entry a of the table), so that update() writes into the table
RECURSIVE MergeAliased(_, _, _, _)
MergeAliased(fp, func_lower, k, a) ==
    IF k > Len(fp)
    THEN [patterns |-> IF a = 0 THEN {} ELSE fp[a][2], function_patterns |-> fp]
    ELSE IF ~Contains(func_lower, fp[k][1]) THEN MergeAliased(fp, func_lower, k + 1, a)
    ELSE IF a = 0 THEN MergeAliased(fp, func_lower, k + 1, k)
    ELSE MergeAliased([fp EXCEPT ![a] = <<fp[a][1], fp[a][2] \cup fp[k][2]>>],
                      func_lower, k + 1, a)

\* the merge of infer_test_cases sharing its dict with the table
MergePatterns_alias(self, func) ==
    MergeAliased(self.function_patterns, ToLower(func.name), 1, 0)

\* lines 109-113: the merged `patterns` dict, as its key set, and the table
\* as the loop leaves it
MergePatterns(self, func) ==
    MergeFrom(self.function_patterns, ToLower(func.name), 1, {})

\* the merged `patterns` dict of infer_test_cases, as its key set
NamePatterns(self, func) == MergePatterns(self, func).patterns

\* infer_test_cases with the boundary tests put before the normal test
infer_test_cases_boundary_first(self, func) ==
    generate_boundary_tests(func) \o generate_normal_tests(self, func)

\* infer_test_cases
infer_test_cases(self, func) ==
    LET has_string_param ==
            \E k \in 1..Len(func.parameters) :
                /\ func.parameters[k].type # None
                /\ Contains(func.parameters[k].type[1], t_String)
        Tests(patterns) ==
            (IF func.return_type = Some(t_bool) \/ "test_true_false" \in patterns
             THEN generate_bool_tests(self, func) ELSE << >>)
            \o generate_normal_tests(self, func)
            \o generate_boundary_tests(func)
            \o (IF "test_error" \in patterns \/ func.is_async
                THEN generate_error_tests(func) ELSE << >>)
            \o (IF has_string_param THEN generate_security_tests(func) ELSE << >>)
    IN Tests(NamePatterns(self, func))

\* the tables of the instance after infer_test_cases(func): the call
\* assigns to no attribute of self; the only dict it writes is `patterns`
AfterInfer(self, func) ==
    [self EXCEPT !.function_patterns = MergePatterns(self, func).function_patterns]

----------------------------------------------------------------------------
(* Inputs of parse_parameters: concatenations of at most MaxParamTokens    *)
(* tokens.                                                                 *)

MaxParamTokens == 4

ParamTokens ==
    { <<"i","n","t">>, <<"a">>, <<" ">>, <<",">>, <<"{">>, <<"}">>,
      <<"[">>, <<"]">>, <<"=">>, <<"?">>, kw_required }

RECURSIVE TokenStrings(_, _)
TokenStrings(T, n) ==
    IF n = 0 THEN { << >> }
    ELSE LET shorter == TokenStrings(T, n - 1)
         IN shorter \cup {s \o t : s \in shorter, t \in T}

\* parameter lists with a positional, a brace and a bracket group, brace
\* groups with and without the keyword `required`, an identifier without a
\* type and a type with an identifier
ParamCorpus ==
    { <<"i","n","t"," ","a",","," ","{","r","e","q","u","i","r","e","d"," ",
        "i","n","t"," ","b","}",","," ","[","i","n","t"," ","c","]">>,
      <<"S","t","r","i","n","g"," ","s",","," ","{","i","n","t"," ","n"," ",
        "="," ","0","}">>,
      <<"a",","," ","[","b"," ","="," ","1",","," ","c","]",","," ","{","d","}">>,
      <<"{","i","n","t"," ","r","e","q","u","i","r","e","d","C","o","u","n","t",
        "}">>,
      <<"{","r","e","q","u","i","r","e","d"," ","i","n","t"," ","a",","," ",
        "i","n","t"," ","b","}">>,
      <<"v","a","l","u","e">>,
      <<"T","y","p","e"," ","n","a","m","e">> }

InitParams ==
    /\ pc = "parse_parameters"
    /\ param_str \in TokenStrings(ParamTokens, MaxParamTokens) \cup ParamCorpus
    /\ params = << >>
    /\ descriptor = << >>
    /\ test_cases = << >>
    /\ file = << >>
    /\ result = << >>
    /\ dart_files = << >>
    /\ file_idx = 0
    /\ results = << >>
    /\ fs = << >>
    /\ run = << >>
    /\ generated = << >>
    /\ generators = << >>
    /\ calls = << >>
    /\ json_output = << >>
    /\ lines_done = << >>
    /\ test_results = << >>
    /\ test_blocks = << >>
    /\ sample_interval = << >>
    /\ analyze_calls = << >>
    /\ anomaly_frames = << >>
    /\ similarity_threshold = << >>
    /\ max_frames = << >>
    /\ prev_frame = << >>
    /\ extracted_count = << >>
    /\ keyframes = << >>
    /\ video = << >>
    /\ frame_idx = << >>
    /\ report = << >>
    /\ given_path = << >>
    /\ test_path = << >>

ParseParameters ==
    /\ pc = "parse_parameters"
    /\ params' = parse_parameters(param_str)
    /\ pc' = "parsed"
    /\ UNCHANGED <<param_str, descriptor, test_cases, file, result,
                   batch_vars, gen_vars, generated, call_vars, path_vars,
                   video_vars, kf_vars, pv_vars, block_vars, json_vars>>

NextParams == ParseParameters

SpecParams == InitParams /\ [][NextParams]_vars

----------------------------------------------------------------------------
(* Inputs of infer_test_cases: descriptors with at most MaxParams          *)
(* parameters.                                                             *)

MaxParams == 2

InferNames ==
    { <<"i","s","O","k">>, <<"p","a","r","s","e">>, <<"f","o","o">>,
      <<"l","i","s","t">>, <<"H","a","s","I","d">>, <<"s","a","v","e">>,
      <<"R","e","l","o","a","d">>, <<"f","o","r","m","a","t">> }

InferReturnTypes == { None, Some(t_bool), Some(t_int) }

InferParams ==
    { Parameter(<<"a">>, Some(t_String), TRUE, FALSE, None),
      Parameter(<<"a">>, Some(t_String \o <<"?">>), TRUE, FALSE, None),
      Parameter(<<"b">>, Some(t_String), FALSE, TRUE, None),
      Parameter(<<"a">>, Some(t_int), TRUE, FALSE, None),
      Parameter(<<"b">>, Some(t_int), TRUE, TRUE, None),
      Parameter(<<"b">>, Some(t_double), FALSE, FALSE, None),
      Parameter(<<"c">>, Some(t_num \o <<"?">>), TRUE, FALSE, None),
      Parameter(<<"c">>, Some(t_List \o <<"<">> \o t_String \o <<">">>), TRUE, FALSE, None),
      Parameter(<<"a">>, Some(t_List \o <<"<">> \o t_int \o <<">">>), TRUE, FALSE, None),
      Parameter(<<"b">>, Some(t_bool), TRUE, FALSE, None),
      Parameter(<<"c">>, Some(t_Map), TRUE, FALSE, None),
      Parameter(<<"a">>, None, TRUE, FALSE, None) }

InitInfer ==
    /\ pc = "infer_test_cases"
    /\ param_str = << >>
    /\ params = << >>
    /\ \E name \in InferNames, return_type \in InferReturnTypes,
          parameters \in SeqsUpTo(InferParams, MaxParams), is_async \in BOOLEAN :
            descriptor = Function(name, return_type, parameters, is_async, FALSE, None, 1, << >>)
    /\ test_cases = << >>
    /\ file = << >>
    /\ result = << >>
    /\ dart_files = << >>
    /\ file_idx = 0
    /\ results = << >>
    /\ fs = << >>
    /\ run = << >>
    /\ generated = << >>
    /\ generators = << >>
    /\ calls = << >>
    /\ json_output = << >>
    /\ lines_done = << >>
    /\ test_results = << >>
    /\ test_blocks = << >>
    /\ sample_interval = << >>
    /\ analyze_calls = << >>
    /\ anomaly_frames = << >>
    /\ similarity_threshold = << >>
    /\ max_frames = << >>
    /\ prev_frame = << >>
    /\ extracted_count = << >>
    /\ keyframes = << >>
    /\ video = << >>
    /\ frame_idx = << >>
    /\ report = << >>
    /\ given_path = << >>
    /\ test_path = << >>

InferTestCases ==
    /\ pc = "infer_test_cases"
    /\ test_cases' = infer_test_cases(TestGenerator, descriptor)
    /\ pc' = "inferred"
    /\ UNCHANGED <<param_str, params, descriptor, file, result,
                   batch_vars, gen_vars, generated, call_vars, path_vars,
                   video_vars, kf_vars, pv_vars, block_vars, json_vars>>

----------------------------------------------------------------------------
(* Calls of infer_test_cases on TestGenerator instances: at most MaxCalls  *)
(* calls, each on one of the instances with one of CallDescriptors.        *)

MaxCalls == 4

Instances == {1, 2}

CallDescriptors ==
    { Function(<<"c","a","n","D","o">>, None,
               << Parameter(<<"a">>, Some(t_String), TRUE, FALSE, None) >>,
               FALSE, FALSE, None, 1, << >>),
      Function(<<"c","a","n","S","a","v","e">>, Some(t_int),
               << Parameter(<<"b">>, Some(t_int), TRUE, FALSE, None) >>,
               FALSE, FALSE, None, 1, << >>),
      Function(<<"f","o","o">>, Some(t_bool),
               << Parameter(<<"c">>, Some(t_Map), TRUE, FALSE, None) >>,
               TRUE, FALSE, None, 1, << >>),
      Function(<<"p","a","r","s","e">>, None, << >>,
               FALSE, FALSE, None, 1, << >>) }

InitCalls ==
    /\ pc = "calls"
    /\ generators = [g \in Instances |-> TestGenerator]
    /\ calls = << >>
    /\ json_output = << >>
    /\ lines_done = << >>
    /\ test_results = << >>
    /\ test_blocks = << >>
    /\ sample_interval = << >>
    /\ analyze_calls = << >>
    /\ anomaly_frames = << >>
    /\ similarity_threshold = << >>
    /\ max_frames = << >>
    /\ prev_frame = << >>
    /\ extracted_count = << >>
    /\ keyframes = << >>
    /\ video = << >>
    /\ frame_idx = << >>
    /\ report = << >>
    /\ given_path = << >>
    /\ test_path = << >>
    /\ param_str = << >>
    /\ params = << >>
    /\ descriptor = << >>
    /\ test_cases = << >>
    /\ file = << >>
    /\ result = << >>
    /\ dart_files = << >>
    /\ file_idx = 0
    /\ results = << >>
    /\ fs = << >>
    /\ run = << >>
    /\ generated = << >>

\* generators[g].infer_test_cases(func)
InferCall ==
    /\ pc = "calls"
    /\ Len(calls) < MaxCalls
    /\ \E g \in Instances, func \in CallDescriptors :
          /\ calls' = Append(calls,
                             [generator |-> g, func |-> func,
                              test_cases |-> infer_test_cases(generators[g], func)])
          /\ generators' = [generators EXCEPT ![g] = AfterInfer(generators[g], func)]
    /\ UNCHANGED <<pc, param_str, params, descriptor, test_cases, file, result,
                   batch_vars, gen_vars, generated, path_vars, video_vars,
                   kf_vars, pv_vars, block_vars, json_vars>>

NextCalls == InferCall

SpecCalls == InitCalls /\ [][NextCalls]_vars

----------------------------------------------------------------------------
(* generate_tests.py : generate_test_code, _generate_test_block,           *)
(* get_test_file_path                                                      *)
(* Rendered text is a sequence of pieces: the characters of interpolated   *)
(* names and the literal parts of the f-strings.                           *)

s_lib  == <<"l","i","b","/">>
s_dart == <<".","d","a","r","t">>
s_test_dart == <<"_","t","e","s","t",".","d","a","r","t">>

\* s.split(w)[-1]
RECURSIVE AfterLast(_, _)
AfterLast(s, w) ==
    LET k == Find(s, w, 1)
    IN IF k = 0 THEN s ELSE AfterLast(Slice(s, k + Len(w), Len(s)), w)

\* the items of tc.input_values as Arrange lines
ArrangeLines(tc, indent) ==
    [k \in 1..Len(tc.input_values) |->
        <<indent, "  final ">> \o tc.input_values[k][1]
            \o <<" = ", tc.input_values[k][2], ";">>]

\* ', '.join(name: name | name for p in func.parameters)
CallArguments(fn) ==
    Join([k \in 1..Len(fn.parameters) |->
            IF fn.parameters[k].is_named
            THEN fn.parameters[k].name \o <<": ">> \o fn.parameters[k].name
            ELSE fn.parameters[k].name],
         <<", ">>)

\* _generate_test_block(tc, func, is_method): a list of lines
generate_test_block(tc, fn, is_method) ==
    LET indent    == IF is_method THEN "      " ELSE "    "
        async_str == IF fn.is_async THEN "async " ELSE ""
        Expectation(ind) ==
            IF tc.assertion_type = "isTrue" THEN <<ind, "  expect(result, isTrue);">>
            ELSE IF tc.assertion_type = "isFalse" THEN <<ind, "  expect(result, isFalse);">>
            ELSE IF tc.assertion_type = "isNull" THEN <<ind, "  expect(result, isNull);">>
            ELSE IF tc.assertion_type = "isNotNull" THEN <<ind, "  expect(result, isNotNull);">>
            ELSE <<ind, "  expect(result, equals(", tc.expected, "));">>
        Act(ind, call) ==
            IF tc.assertion_type = "throws"
            THEN << <<ind, "  // Assert">>,
                    <<ind, "  expect(() => ">> \o call
                        \o <<", throwsA(isA<", tc.expected, ">()));">> >>
            ELSE << <<ind, "  final result = ">> \o call \o <<";">>,
                    << >>,
                    <<ind, "  // Assert">>,
                    Expectation(ind) >>
        Block(ind, call) ==
            << <<ind, "test('">> \o tc.name \o <<"', () ", async_str, "{">>,
               <<ind, "  // Arrange">> >>
            \o ArrangeLines(tc, ind)
            \o << << >>,
                  <<ind, "  // Act">> >>
            \o Act(ind, call)
            \o << <<ind, "});">>,
                  << >> >>
    IN Block(indent,
             (IF fn.is_async THEN <<"await ">> ELSE << >>)
                \o (IF is_method THEN <<"sut.">> ELSE << >>)
                \o fn.name \o <<"(">> \o CallArguments(fn) \o <<")">>)

\* the lines generate_test_code emits for one top-level function
FunctionGroup(fn) ==
    LET Blocks(tcs) == Concat([k \in 1..Len(tcs) |-> generate_test_block(tcs[k], fn, FALSE)])
    IN IF fn.is_private THEN << >>
       ELSE << <<"  group('">> \o fn.name \o <<"', () {">> >>
            \o Blocks(infer_test_cases(TestGenerator, fn))
            \o << <<"  });">>, << >> >>

\* the lines generate_test_code emits for one method of a class
MethodGroup(method) ==
    LET Blocks(tcs) == Concat([k \in 1..Len(tcs) |-> generate_test_block(tcs[k], method, TRUE)])
    IN IF method.is_private THEN << >>
       ELSE << <<"    group('">> \o method.name \o <<"', () {">> >>
            \o Blocks(infer_test_cases(TestGenerator, method))
            \o << <<"    });">>, << >> >>

\* ClassGroup without the test of line 352 (`if cls.is_abstract: continue`)
ClassGroup_abstract(cls) ==
    << <<"  group('">> \o cls.name \o <<"', () {">>,
       <<"    late ">> \o cls.name \o <<" sut;">>,
       << >>,
       <<"    setUp(() {">>,
       <<"      sut = ">> \o cls.name \o <<"();  // TODO: proper initialization">>,
       <<"    });">>,
       << >> >>
    \o Concat([k \in 1..Len(cls.methods) |-> MethodGroup(cls.methods[k])])
    \o << <<"  });">>, << >> >>

\* the lines generate_test_code emits for one class
ClassGroup(cls) ==
    IF cls.is_abstract THEN << >>
    ELSE << <<"  group('">> \o cls.name \o <<"', () {">>,
            <<"    late ">> \o cls.name \o <<" sut;">>,
            << >>,
            <<"    setUp(() {">>,
            <<"      sut = ">> \o cls.name \o <<"();  // TODO: proper initialization">>,
            <<"    });">>,
            << >> >>
         \o Concat([k \in 1..Len(cls.methods) |-> MethodGroup(cls.methods[k])])
         \o << <<"  });">>, << >> >>

\* generate_test_code(result)
generate_test_code(res) ==
    LET ImportLine(source_path) ==
            IF Contains(source_path, s_lib)
            THEN <<"import 'package:app_name/">> \o AfterLast(source_path, s_lib) \o <<"';">>
            ELSE <<"import '">> \o source_path \o <<"';">>
    IN Join(<< <<"import 'package:flutter_test/flutter_test.dart';">>,
               ImportLine(res.file_path),
               << >>,
               <<"void main() {">> >>
            \o Concat([k \in 1..Len(res.top_level_functions) |->
                         FunctionGroup(res.top_level_functions[k])])
            \o Concat([k \in 1..Len(res.classes) |-> ClassGroup(res.classes[k])])
            \o << <<"}">> >>,
            <<"\n">>)

\* str(Path(p)): the components between slashes without the empty ones and
\* the `.` ones, after the root
PathStr(p) ==
    LET Kept(part) == part # << >> /\ part # <<".">>
        Root == IF StartsWithAt(p, 1, <<"/","/">>) /\ ~StartsWithAt(p, 1, <<"/","/","/">>)
                THEN <<"/","/">>
                ELSE IF StartsWithAt(p, 1, <<"/">>) THEN <<"/">> ELSE << >>
        Str(parts) ==
            IF parts = << >> /\ Root = << >> THEN <<".">>
            ELSE Root \o Join(parts, <<"/">>)
    IN Str(SelectSeq(Split(p, "/"), Kept))

\* get_test_file_path(source_path)
get_test_file_path(source_path) ==
    LET Renamed(path) ==
            IF Contains(path, s_lib)
            THEN <<"t","e","s","t","/">>
                   \o Replace(AfterLast(path, s_lib), s_dart, s_test_dart)
            ELSE Replace(path, s_dart, s_test_dart)
    IN Renamed(PathStr(source_path))

----------------------------------------------------------------------------
(* infer_test_cases followed by _generate_test_block on each test case     *)

\* _generate_test_block on every test case inferred, as generate_test_code
\* calls it for a top-level function (lines 344-346)
RenderBlocks ==
    /\ pc = "inferred"
    /\ test_blocks' = [k \in 1..Len(test_cases) |->
                          generate_test_block(test_cases[k], descriptor, FALSE)]
    /\ pc' = "blocks"
    /\ UNCHANGED <<param_str, params, descriptor, test_cases, file, result,
                   batch_vars, gen_vars, generated, call_vars, path_vars,
                   video_vars, kf_vars, pv_vars, json_vars>>

NextInfer == InferTestCases \/ RenderBlocks

SpecInfer == InitInfer /\ [][NextInfer]_vars

----------------------------------------------------------------------------
(* Inputs of analyze: files whose content is at most MaxLines source       *)
(* lines out of SourceLines, or one of the texts of SourceCorpus.          *)

MaxLines == 4

frag_class_A ==
    <<"c","l","a","s","s"," ","A"," ","{","\n">>

frag_class_B ==
    <<"a","b","s","t","r","a","c","t"," ","c","l","a","s","s"," ","B"," ",
      "{","\n">>

frag_ctor_A ==
    <<" "," ","A","(","i","n","t"," ","a",")"," ","{","}","\n">>

frag_method_g ==
    <<" "," ","i","n","t"," ","g","(","S","t","r","i","n","g"," ","s",")",
      " ","{","\n">>

frag_close ==
    <<"}","\n">>

frag_func_f ==
    <<"v","o","i","d"," ","f","(","i","n","t"," ","x",")"," ","{","}","\n">>

frag_blank ==
    <<"\n">>

ScenarioA ==
    <<"b","o","o","l"," ","i","s","V","a","l","i","d","E","m","a","i","l",
      "(","S","t","r","i","n","g"," ","e","m","a","i","l",")"," ","{","\n",
      " "," ","r","e","t","u","r","n"," ","t","r","u","e",";","\n","}","\n">>

SourceWidget ==
    <<"i","m","p","o","r","t"," ","'","a",".","d","a","r","t","'",";","\n",
      "p","a","r","t"," ","o","f"," ","a","p","p",";","\n","\n","/","/","/",
      " ","A"," ","w","i","d","g","e","t",".","\n","c","l","a","s","s"," ",
      "A"," ","e","x","t","e","n","d","s"," ","B"," ","{","\n"," "," ","A",
      "(","i","n","t"," ","a",")"," ","{","}","\n","\n"," "," ","/","/","/",
      " ","S","u","m","s",".","\n"," "," ","s","t","a","t","i","c"," ","i",
      "n","t"," ","s","u","m","(","i","n","t"," ","x",","," ","{","i","n",
      "t"," ","y"," ","="," ","0","}",")"," ","{","\n"," "," "," "," ","i",
      "f"," ","(","x"," ",">"," ","y",")"," ","{","\n"," "," "," "," "," ",
      " ","r","e","t","u","r","n"," ","x",";","\n"," "," "," "," ","}","\n",
      " "," "," "," ","r","e","t","u","r","n"," ","y",";","\n"," "," ","}",
      "\n","}","\n","\n","v","o","i","d"," ","m","a","i","n","(",")"," ",
      "{","}","\n">>

SourceLines ==
    { frag_class_A, frag_class_B, frag_ctor_A, frag_method_g, frag_close,
      frag_func_f, frag_blank }

\* an abstract class without a body, an abstract class with a method and
\* a concrete class with the same method
SourceRepo ==
    <<"a","b","s","t","r","a","c","t"," ","c","l","a","s","s"," ","R","e",
      "p","o"," ","{","}","\n","a","b","s","t","r","a","c","t"," ","c","l",
      "a","s","s"," ","B"," ","{","\n"," "," ","i","n","t"," ","g","(","S",
      "t","r","i","n","g"," ","s",")"," ","{","\n"," "," ","}","\n","}",
      "\n","c","l","a","s","s"," ","A"," ","{","\n"," "," ","i","n","t"," ",
      "g","(","S","t","r","i","n","g"," ","s",")"," ","{","\n"," "," ","}",
      "\n","}","\n">>

\* the entry points main and build next to an ordinary function
SourceEntry ==
    <<"v","o","i","d"," ","m","a","i","n","(",")"," ","{","}","\n","i","n",
      "t"," ","b","u","i","l","d","(","i","n","t"," ","c",")"," ","{","}",
      "\n","v","o","i","d"," ","f","(","i","n","t"," ","x",")"," ","{","}",
      "\n">>

\* async after the parameter list, async before the return type, no async
SourceAsync ==
    <<"F","u","t","u","r","e","<","i","n","t",">"," ","f","(","i","n","t",
      " ","x",")"," ","a","s","y","n","c"," ","{","\n","}","\n","a","s","y",
      "n","c"," ","i","n","t"," ","g","(","i","n","t"," ","x",")"," ","{",
      "\n","}","\n","i","n","t"," ","h","(","i","n","t"," ","x",")"," ","{",
      "\n","}","\n">>

\* a doc comment separated from a class by a blank line, and one directly
\* above a function
SourceDoc ==
    <<"/","/","/"," ","D","o","c",".","\n","\n","c","l","a","s","s"," ","A",
      " ","{","\n","}","\n","/","/","/"," ","F",".","\n","v","o","i","d",
      " ","f","(","i","n","t"," ","x",")"," ","{","}","\n">>

\* a class with a named constructor, an unnamed constructor and a method
SourceNamed ==
    <<"c","l","a","s","s"," ","A"," ","{","\n"," "," ","A",".","n","a","m",
      "e","d","(","i","n","t"," ","a",")"," ","{","}","\n"," "," ","A","(",
      "i","n","t"," ","a",")"," ","{","}","\n"," "," ","i","n","t"," ","g",
      "(","S","t","r","i","n","g"," ","s",")"," ","{","\n"," "," ","}","\n",
      "}","\n">>

SourceCorpus ==
    { ScenarioA, SourceWidget, SourceRepo, SourceEntry, SourceAsync, SourceDoc,
      SourceNamed }

Sources ==
    {Concat(ls) : ls \in SeqsUpTo(SourceLines, MaxLines)} \cup SourceCorpus

path_lib_a == <<"l","i","b","/","a",".","d","a","r","t">>

Files ==
    {[path |-> path_lib_a, readable |-> TRUE, content |-> c] : c \in Sources}
    \cup {[path |-> path_lib_a, readable |-> FALSE, content |-> << >>]}

InitAnalyze ==
    /\ pc = "analyze"
    /\ file \in Files
    /\ result = << >>
    /\ param_str = << >>
    /\ params = << >>
    /\ descriptor = << >>
    /\ test_cases = << >>
    /\ dart_files = << >>
    /\ file_idx = 0
    /\ results = << >>
    /\ fs = << >>
    /\ run = << >>
    /\ generated = << >>
    /\ generators = << >>
    /\ calls = << >>
    /\ json_output = << >>
    /\ lines_done = << >>
    /\ test_results = << >>
    /\ test_blocks = << >>
    /\ sample_interval = << >>
    /\ analyze_calls = << >>
    /\ anomaly_frames = << >>
    /\ similarity_threshold = << >>
    /\ max_frames = << >>
    /\ prev_frame = << >>
    /\ extracted_count = << >>
    /\ keyframes = << >>
    /\ video = << >>
    /\ frame_idx = << >>
    /\ report = << >>
    /\ given_path = << >>
    /\ test_path = << >>

Analyze ==
    /\ pc = "analyze"
    /\ result' = analyze(file)
    /\ pc' = "analyzed"
    /\ UNCHANGED <<file, param_str, params, descriptor, test_cases,
                   batch_vars, gen_vars, generated, call_vars, path_vars,
                   video_vars, kf_vars, pv_vars, block_vars, json_vars>>

\* generate_test_code line 344: infer_test_cases on a top-level function
InferTopLevel ==
    /\ pc = "analyzed"
    /\ \E k \in 1..Len(result.top_level_functions) :
        /\ descriptor' = result.top_level_functions[k]
        /\ test_cases' = infer_test_cases(TestGenerator, result.top_level_functions[k])
    /\ pc' = "inferred"
    /\ UNCHANGED <<file, result, param_str, params, batch_vars, gen_vars, generated, call_vars,
                   path_vars, video_vars, kf_vars, pv_vars, block_vars,
                   json_vars>>

\* generate_test_code line 372: infer_test_cases on a method of a class
InferMethod ==
    /\ pc = "analyzed"
    /\ \E c \in 1..Len(result.classes) :
        \E k \in 1..Len(result.classes[c].methods) :
            /\ descriptor' = result.classes[c].methods[k]
            /\ test_cases' = infer_test_cases(TestGenerator, result.classes[c].methods[k])
    /\ pc' = "inferred"
    /\ UNCHANGED <<file, result, param_str, params, batch_vars, gen_vars, generated, call_vars,
                   path_vars, video_vars, kf_vars, pv_vars, block_vars,
                   json_vars>>

\* generate_tests.main line 520: generate_test_code on the analysis result
Render ==
    /\ pc = "analyzed"
    /\ generated' = generate_test_code(result)
    /\ pc' = "rendered"
    /\ UNCHANGED <<file, result, param_str, params, descriptor, test_cases,
                   batch_vars, gen_vars, call_vars, path_vars, video_vars,
                   kf_vars, pv_vars, block_vars, json_vars>>

NextAnalyze == Analyze \/ InferTopLevel \/ InferMethod \/ Render

SpecAnalyze == InitAnalyze /\ [][NextAnalyze]_vars

----------------------------------------------------------------------------
(* analyze_dart.py : main, directory mode (lines 496-509)                  *)
(* The glob yields the .dart files of the directory in an order the file   *)
(* system chooses; the for loop visits them one per step.                  *)

s_g_dart == <<".","g",".","d","a","r","t">>

\* line 507: the file is left out of the batch
Skipped(dart_file) ==
    Contains(dart_file.path, s_test_dart) \/ Contains(dart_file.path, s_g_dart)

\* line 509 with the batch given up at a file that cannot be read
AppendResult_stop(rs, dart_file) ==
    IF dart_file.readable THEN Append(rs, analyze(dart_file)) ELSE rs

\* line 509: results.append(analyzer.analyze(str(dart_file)))
AppendResult(rs, dart_file) == Append(rs, analyze(dart_file))

MaxFiles == 3

path_lib_b == <<"l","i","b","/","b",".","d","a","r","t">>
path_lib_c == <<"l","i","b","/","c",".","d","a","r","t">>
path_lib_a_test == <<"l","i","b","/","a","_","t","e","s","t",".","d","a","r","t">>
path_lib_m_g == <<"l","i","b","/","m",".","g",".","d","a","r","t">>
path_lib_old ==
    <<"l","i","b","/","o","_","t","e","s","t",".","d","a","r","t","s","/",
      "e",".","d","a","r","t">>

DirectoryFiles ==
    { [path |-> path_lib_a, readable |-> TRUE, content |-> ScenarioA],
      [path |-> path_lib_b, readable |-> FALSE, content |-> << >>],
      [path |-> path_lib_c, readable |-> TRUE, content |-> SourceWidget],
      [path |-> path_lib_a_test, readable |-> TRUE, content |-> frag_func_f],
      [path |-> path_lib_m_g, readable |-> FALSE, content |-> << >>],
      [path |-> path_lib_old, readable |-> TRUE, content |-> frag_func_f] }

\* the lists a glob can yield: distinct files in any order
Listings ==
    { l \in SeqsUpTo(DirectoryFiles, MaxFiles) :
        \A i, j \in 1..Len(l) : i # j => l[i].path # l[j].path }

InitBatch ==
    /\ pc = "glob"
    /\ dart_files \in Listings
    /\ file_idx = 0
    /\ results = << >>
    /\ param_str = << >>
    /\ params = << >>
    /\ descriptor = << >>
    /\ test_cases = << >>
    /\ file = << >>
    /\ result = << >>
    /\ fs = << >>
    /\ run = << >>
    /\ generated = << >>
    /\ generators = << >>
    /\ calls = << >>
    /\ json_output = << >>
    /\ lines_done = << >>
    /\ test_results = << >>
    /\ test_blocks = << >>
    /\ sample_interval = << >>
    /\ analyze_calls = << >>
    /\ anomaly_frames = << >>
    /\ similarity_threshold = << >>
    /\ max_frames = << >>
    /\ prev_frame = << >>
    /\ extracted_count = << >>
    /\ keyframes = << >>
    /\ video = << >>
    /\ frame_idx = << >>
    /\ report = << >>
    /\ given_path = << >>
    /\ test_path = << >>

\* lines 498-502: no Dart file found, exit status 1
NoDartFiles ==
    /\ pc = "glob"
    /\ dart_files = << >>
    /\ pc' = "exit_1"
    /\ UNCHANGED <<dart_files, file_idx, results, param_str, params,
                   descriptor, test_cases, file, result, gen_vars, generated, call_vars,
                   path_vars, video_vars, kf_vars, pv_vars, block_vars,
                   json_vars>>

\* line 504: the for loop is entered
EnterLoop ==
    /\ pc = "glob"
    /\ dart_files # << >>
    /\ pc' = "for"
    /\ file_idx' = 1
    /\ UNCHANGED <<dart_files, results, param_str, params, descriptor,
                   test_cases, file, result, gen_vars, generated, call_vars,
                   path_vars, video_vars, kf_vars, pv_vars, block_vars,
                   json_vars>>

\* lines 506-508: continue
SkipFile ==
    /\ pc = "for"
    /\ file_idx <= Len(dart_files)
    /\ Skipped(dart_files[file_idx])
    /\ file_idx' = file_idx + 1
    /\ UNCHANGED <<pc, dart_files, results, param_str, params, descriptor,
                   test_cases, file, result, gen_vars, generated, call_vars,
                   path_vars, video_vars, kf_vars, pv_vars, block_vars,
                   json_vars>>

\* line 509
AnalyzeFile ==
    /\ pc = "for"
    /\ file_idx <= Len(dart_files)
    /\ ~Skipped(dart_files[file_idx])
    /\ results' = AppendResult(results, dart_files[file_idx])
    /\ file_idx' = file_idx + 1
    /\ UNCHANGED <<pc, dart_files, param_str, params, descriptor,
                   test_cases, file, result, gen_vars, generated, call_vars,
                   path_vars, video_vars, kf_vars, pv_vars, block_vars,
                   json_vars>>

\* lines 511-517: the loop is over and the results are printed
PrintResults ==
    /\ pc = "for"
    /\ file_idx > Len(dart_files)
    /\ pc' = "printed"
    /\ UNCHANGED <<dart_files, file_idx, results, param_str, params,
                   descriptor, test_cases, file, result, gen_vars, generated, call_vars,
                   path_vars, video_vars, kf_vars, pv_vars, block_vars,
                   json_vars>>

NextBatch == NoDartFiles \/ EnterLoop \/ SkipFile \/ AnalyzeFile \/ PrintResults

SpecBatch == InitBatch /\ [][NextBatch]_vars

----------------------------------------------------------------------------
(* generate_tests.py : print_summary, main (lines 455-553)                 *)
(* The file system maps each existing path to its node; a path outside the *)
(* domain does not exist.  Paths are in the normal form of pathlib.  The   *)
(* messages, Japanese in the source, are written in ASCII.  Standard       *)
(* output is the sequence of printed lines, each a sequence of pieces.     *)

dot == <<".">>

DirNode == [kind |-> "dir", content |-> << >>, readable |-> TRUE]
FileNode(content, readable) ==
    [kind |-> "file", content |-> content, readable |-> readable]

\* Path.exists()
Exists(files, p) == p = dot \/ p \in DOMAIN files

\* Path.is_dir()
IsDir(files, p) == p = dot \/ (p \in DOMAIN files /\ files[p].kind = "dir")

\* s.rfind(c), 1-based, or 0
RFind(s, c) ==
    LET S == {k \in 1..Len(s) : s[k] = c}
    IN IF S = {} THEN 0 ELSE Max(S)

\* Path.parent
Parent(p) ==
    LET k == RFind(p, "/")
    IN IF k = 0 THEN dot ELSE Slice(p, 1, k - 1)

\* Path.suffix
Suffix(p) ==
    LET name == Slice(p, RFind(p, "/") + 1, Len(p))
        i    == RFind(name, ".")
    IN IF 1 < i /\ i < Len(name) THEN Slice(name, i, Len(name)) ELSE << >>

\* p and the directories above it, up to the working directory
RECURSIVE SelfAndParents(_)
SelfAndParents(p) ==
    IF p = dot THEN {} ELSE {p} \cup SelfAndParents(Parent(p))

\* Path.mkdir(parents=True, exist_ok=True) on directory d
MkdirParents(files, d) ==
    IF IsDir(files, d) THEN [ok |-> TRUE, files |-> files]
    ELSE IF \E q \in SelfAndParents(d) :
                q \in DOMAIN files /\ files[q].kind = "file"
    THEN [ok |-> FALSE, files |-> files]
    ELSE [ok |-> TRUE,
          files |-> [q \in DOMAIN files \cup SelfAndParents(d) |->
                        IF q \in DOMAIN files THEN files[q] ELSE DirNode]]

\* open(test_file, 'w') and f.write(test_code)
WriteText(files, p, text) ==
    IF IsDir(files, p) THEN [ok |-> FALSE, files |-> files]
    ELSE [ok |-> TRUE,
          files |-> [q \in DOMAIN files \cup {p} |->
                        IF q # p THEN files[q]
                        ELSE FileNode(text, IF p \in DOMAIN files
                                            THEN files[p].readable ELSE TRUE)]]

Rule60 == "============================================================"
Rule58 == "// =========================================================="

\* len([f for f in fns if not f.is_private])
PublicCount(fns) == Cardinality({k \in 1..Len(fns) : ~fns[k].is_private})

RECURSIVE SumSeq(_)
SumSeq(ns) == IF ns = << >> THEN 0 ELSE Head(ns) + SumSeq(Tail(ns))

\* print_summary(result, test_cases_count, test_file)
print_summary(res, test_cases_count, test_file) ==
    LET Lines(func_count, method_count) ==
            << <<Rule60>>, <<"test generation finished">>, <<Rule60>>,
               <<"\n", "source file: ">> \o res.file_path,
               <<"output: ">> \o test_file,
               <<"\n", "targets:">>,
               <<"  top-level functions: ", ToString(func_count)>>,
               <<"  class methods: ", ToString(method_count)>>,
               <<"\n", "generated test cases: ", ToString(test_cases_count)>>,
               <<"\n", "next steps:">>,
               <<"  1. check and fix ">> \o test_file,
               <<"  2. run flutter test ">> \o test_file >>
    IN Lines(PublicCount(res.top_level_functions),
             SumSeq([c \in 1..Len(res.classes) |->
                       IF res.classes[c].is_abstract THEN 0
                       ELSE PublicCount(res.classes[c].methods)]))

Exit(files, exit_status, stdout) ==
    [files |-> files, exit_status |-> exit_status, stdout |-> stdout]

\* lines 532-536 with the output directory made before the text is printed
DryRun_mkdir(files, test_file, stdout) ==
    Exit(MkdirParents(files, Parent(test_file)).files, 0, stdout)

\* lines 532-536: the dry run prints and leaves the file system alone
DryRun(files, test_file, stdout) == Exit(files, 0, stdout)

\* line 543 with the sense of --force inverted
OverwriteRefused_inverted(exists, force) == exists /\ force

\* line 543: test_path.exists() and not args.force
OverwriteRefused(exists, force) == exists /\ ~force

\* lines 537-553: the else branch of main
WriteTestFile(a, files, test_file, test_code, warnings, summary) ==
    LET Written(made, written) ==
            IF ~written.ok THEN Exit(made.files, 1, warnings)
            ELSE Exit(written.files, 0,
                      warnings \o summary
                        \o << <<"\n", "created file: ">> \o test_file >>)
        Made(made) ==
            IF ~made.ok THEN Exit(files, 1, warnings)
            ELSE IF OverwriteRefused(Exists(made.files, test_file), a.force)
            THEN Exit(made.files, 1,
                      warnings \o << <<"error: file already exists: ">> \o test_file,
                                     <<"use the --force option to overwrite">> >>)
            ELSE Written(made, WriteText(made.files, test_file, test_code))
    IN Made(MkdirParents(files, Parent(test_file)))

\* main() of generate_tests.py run with arguments a on file system files
main_generate(a, files) ==
    LET Warnings(errors) ==
            IF errors = << >> THEN << >>
            ELSE << <<"warning: there are analysis errors:">> >>
                    \o [k \in 1..Len(errors) |-> <<"  - ", errors[k]>>]
        Output(test_file, test_code, warnings, summary) ==
            IF a.dry_run
            THEN DryRun(files, test_file,
                        warnings \o << <<"// output: ">> \o test_file,
                                       <<Rule58>>, test_code >> \o summary)
            ELSE WriteTestFile(a, files, test_file, test_code, warnings, summary)
        Counted(res, test_code, test_file) ==
            Output(test_file, test_code, Warnings(res.errors),
                   print_summary(res, Count(test_code, "test('"), test_file))
        Rendered(res) ==
            Counted(res, generate_test_code(res),
                    IF a.output # None /\ a.output # Some(<< >>)
                    THEN a.output[1]
                    ELSE get_test_file_path(a.source))
        Read(node) ==
            Rendered(analyze([path |-> a.source,
                              readable |-> node.kind = "file" /\ node.readable,
                              content |-> node.content]))
    IN IF ~Exists(files, a.source)
       THEN Exit(files, 1, << <<"error: file does not exist: ">> \o a.source >>)
       ELSE IF Suffix(a.source) # s_dart
       THEN Exit(files, 1, << <<"error: not a Dart file: ">> \o a.source >>)
       ELSE Read(files[a.source])

path_a_txt   == <<"a",".","t","x","t">>
path_a_txt_t == <<"a",".","t","x","t","/","t",".","d","a","r","t">>
path_lib     == <<"l","i","b">>
path_test    == <<"t","e","s","t">>
path_test_a  == <<"t","e","s","t","/","a","_","t","e","s","t",".","d","a","r","t">>
path_out     == <<"o","u","t">>
path_out_gen == <<"o","u","t","/","g","e","n">>
path_out_t   == <<"o","u","t","/","g","e","n","/","t",".","d","a","r","t">>

OldText == <<"/","/"," ","o","l","d","\n">>

\* the command lines: source, --output, --dry-run, --force
GenArgs ==
    [source  : {path_lib_a, path_lib_b, path_a_txt},
     output  : {None, Some(path_out_t), Some(path_a_txt_t), Some(path_test)},
     dry_run : BOOLEAN,
     force   : BOOLEAN]

\* the file systems a run starts from
SourceNodes ==
    { FileNode(ScenarioA, TRUE), FileNode(SourceWidget, TRUE),
      FileNode(<< >>, FALSE) }

TestTrees ==
    { << >>,
      << <<path_test, FileNode(OldText, TRUE)>> >>,
      << <<path_test, DirNode>> >>,
      << <<path_test, DirNode>>, <<path_test_a, FileNode(OldText, TRUE)>> >> }

OutTrees ==
    { << >>,
      << <<path_out, DirNode>> >>,
      << <<path_out, DirNode>>, <<path_out_gen, DirNode>> >>,
      << <<path_out, DirNode>>, <<path_out_gen, DirNode>>,
         <<path_out_t, FileNode(OldText, TRUE)>> >> }

\* the file system holding the nodes of the list of <<path, node>> pairs
TreeOf(pairs) ==
    [p \in {pairs[k][1] : k \in 1..Len(pairs)} |->
        pairs[CHOOSE k \in 1..Len(pairs) : pairs[k][1] = p][2]]

FileSystems ==
    { TreeOf(<< <<path_lib, DirNode>>, <<path_lib_a, s>>,
                <<path_a_txt, FileNode(OldText, TRUE)>> >> \o t \o o) :
        s \in SourceNodes, t \in TestTrees, o \in OutTrees }

InitGen ==
    /\ pc = "main"
    /\ fs \in FileSystems
    /\ run = << >>
    /\ generated = << >>
    /\ generators = << >>
    /\ calls = << >>
    /\ json_output = << >>
    /\ lines_done = << >>
    /\ test_results = << >>
    /\ test_blocks = << >>
    /\ sample_interval = << >>
    /\ analyze_calls = << >>
    /\ anomaly_frames = << >>
    /\ similarity_threshold = << >>
    /\ max_frames = << >>
    /\ prev_frame = << >>
    /\ extracted_count = << >>
    /\ keyframes = << >>
    /\ video = << >>
    /\ frame_idx = << >>
    /\ report = << >>
    /\ given_path = << >>
    /\ test_path = << >>
    /\ param_str = << >>
    /\ params = << >>
    /\ descriptor = << >>
    /\ test_cases = << >>
    /\ file = << >>
    /\ result = << >>
    /\ dart_files = << >>
    /\ file_idx = 0
    /\ results = << >>

\* one run of generate_tests.py
GenerateTests ==
    LET Ran(a, out) ==
            /\ fs' = out.files
            /\ run' = Some([args |-> a, fs_before |-> fs,
                            exit_status |-> out.exit_status,
                            stdout |-> out.stdout])
    IN /\ pc = "main"
       /\ \E a \in GenArgs : Ran(a, main_generate(a, fs))
       /\ pc' = "exited"
       /\ UNCHANGED <<param_str, params, descriptor, test_cases, file, result,
                      batch_vars, generated, call_vars, path_vars,
                      video_vars, kf_vars, pv_vars, block_vars, json_vars>>

NextGen == GenerateTests

SpecGen == InitGen /\ [][NextGen]_vars

----------------------------------------------------------------------------
(* Inputs of get_test_file_path: paths of at most MaxDirs directories out  *)
(* of PathDirs above a file out of PathFiles.                              *)

MaxDirs == 3

PathDirs ==
    { <<"l","i","b">>, <<"s","r","c">>, <<"m","y","l","i","b">>, <<".">>,
      <<"a",".","d","a","r","t",".","d">> }

PathFiles ==
    { <<"a",".","d","a","r","t">>, <<"a",".","t","x","t">>,
      <<"a","_","t","e","s","t",".","d","a","r","t">> }

SourcePaths ==
    {Join(dirs \o << f >>, <<"/">>) : dirs \in SeqsUpTo(PathDirs, MaxDirs), f \in PathFiles}

InitPath ==
    /\ pc = "get_test_file_path"
    /\ given_path \in SourcePaths
    /\ test_path = << >>
    /\ param_str = << >>
    /\ params = << >>
    /\ descriptor = << >>
    /\ test_cases = << >>
    /\ file = << >>
    /\ result = << >>
    /\ dart_files = << >>
    /\ file_idx = 0
    /\ results = << >>
    /\ fs = << >>
    /\ run = << >>
    /\ generated = << >>
    /\ generators = << >>
    /\ calls = << >>
    /\ json_output = << >>
    /\ lines_done = << >>
    /\ test_results = << >>
    /\ test_blocks = << >>
    /\ sample_interval = << >>
    /\ analyze_calls = << >>
    /\ anomaly_frames = << >>
    /\ similarity_threshold = << >>
    /\ max_frames = << >>
    /\ prev_frame = << >>
    /\ extracted_count = << >>
    /\ keyframes = << >>
    /\ video = << >>
    /\ frame_idx = << >>
    /\ report = << >>

GetTestFilePath ==
    /\ pc = "get_test_file_path"
    /\ test_path' = get_test_file_path(given_path)
    /\ pc' = "returned"
    /\ UNCHANGED <<given_path, param_str, params, descriptor, test_cases, file,
                   result, batch_vars, gen_vars, generated, call_vars,
                   video_vars, kf_vars, pv_vars, block_vars, json_vars>>

NextPath == GetTestFilePath

SpecPath == InitPath /\ [][NextPath]_vars

----------------------------------------------------------------------------
(* extract_keyframes.py : the loop of extract_keyframes over the frames of *)
(* a video.  A frame is one of FrameImages; calculate_similarity is a      *)
(* symmetric table over pairs of images, in hundredths, with 100 for an    *)
(* image and itself; the threshold is in hundredths as well.               *)

MaxFrames == 3
MaxKeyframes == 2

FrameImages == {1, 2, 3}
Similarities == {0, 50, 85, 100}
Thresholds == {50, 85}

\* the tables calculate_similarity may realise on FrameImages
SimilarityTables ==
    {t \in [FrameImages \X FrameImages -> Similarities] :
        \A a, b \in FrameImages : t[a, b] = t[b, a] /\ t[a, a] = 100}

\* cv2.VideoCapture on a readable file holding the given frames
Videos ==
    {[frames |-> fr, similarity |-> t, frame_count |-> Len(fr)] :
        fr \in SeqsUpTo(FrameImages, MaxFrames), t \in SimilarityTables}

\* calculate_similarity(frame1, frame2) on the frames of video v
calculate_similarity(v, frame1, frame2) == v.similarity[frame1, frame2]

\* lines 116-123: should_extract
should_extract(v, prev, frame, threshold) ==
    IF prev = None THEN TRUE
    ELSE calculate_similarity(v, prev[1], frame) < threshold

\* line 125 with <= for <
Extracting_inclusive(should, count, limit) == should /\ count <= limit

\* line 125: the test guarding the save
Extracting(should, count, limit) == should /\ count < limit

InitKeyframes ==
    /\ pc = "extract_keyframes"
    /\ video \in Videos
    /\ similarity_threshold \in Thresholds
    /\ max_frames \in 0..MaxKeyframes
    /\ prev_frame = None
    /\ frame_idx = 0
    /\ extracted_count = 0
    /\ keyframes = << >>
    /\ report = << >>
    /\ sample_interval = << >>
    /\ analyze_calls = << >>
    /\ anomaly_frames = << >>
    /\ given_path = << >>
    /\ test_path = << >>
    /\ param_str = << >>
    /\ params = << >>
    /\ descriptor = << >>
    /\ test_cases = << >>
    /\ file = << >>
    /\ result = << >>
    /\ dart_files = << >>
    /\ file_idx = 0
    /\ results = << >>
    /\ fs = << >>
    /\ run = << >>
    /\ generated = << >>
    /\ generators = << >>
    /\ calls = << >>
    /\ json_output = << >>
    /\ lines_done = << >>
    /\ test_results = << >>
    /\ test_blocks = << >>

\* one iteration of the while loop of lines 112-148 with ret true
ReadFrame ==
    LET Save(frame) ==
            /\ keyframes' = Append(keyframes, [frame_idx |-> frame_idx])
            /\ extracted_count' = extracted_count + 1
            /\ prev_frame' = Some(frame)
        Step(frame, extract) ==
            /\ IF extract THEN Save(frame)
               ELSE UNCHANGED <<keyframes, extracted_count, prev_frame, block_vars, json_vars>>
            /\ frame_idx' = frame_idx + 1
    IN /\ pc = "extract_keyframes"
       /\ frame_idx < Len(video.frames)
       /\ Step(video.frames[frame_idx + 1],
               Extracting(should_extract(video, prev_frame, video.frames[frame_idx + 1],
                                         similarity_threshold),
                          extracted_count, max_frames))
       /\ UNCHANGED <<pc, video, report, similarity_threshold, max_frames,
                      param_str, params, descriptor, test_cases, file, result,
                      batch_vars, gen_vars, generated, call_vars, path_vars,
                      pv_vars, block_vars, json_vars>>

\* cap.read() returns ret false: the loop ends and the result is returned
\* (lines 113-115, 150-179)
ReturnKeyframes ==
    /\ pc = "extract_keyframes"
    /\ frame_idx = Len(video.frames)
    /\ report' = [total_frames |-> video.frame_count,
                  extracted_frames |-> extracted_count,
                  keyframes |-> keyframes]
    /\ pc' = "extracted"
    /\ UNCHANGED <<video, frame_idx, kf_vars,
                   param_str, params, descriptor, test_cases, file, result,
                   batch_vars, gen_vars, generated, call_vars, path_vars,
                   pv_vars, block_vars, json_vars>>

NextKeyframes == ReadFrame \/ ReturnKeyframes

SpecKeyframes == InitKeyframes /\ [][NextKeyframes]_vars

----------------------------------------------------------------------------
(* detect_anomaly_screens.py : the loop of process_video over the frames   *)
(* of a video.  A frame is the severity AnomalyDetector.analyze_frame      *)
(* finds in it; the container reports as many frames as can be read.       *)

MaxVideoFrames == 5
MaxInterval == 3

Severities == {"normal", "error"}

ScreenVideos ==
    {[frames |-> fr, frame_count |-> Len(fr)] :
        fr \in SeqsUpTo(Severities, MaxVideoFrames)}

\* detector.analyze_frame(frame)["summary"]
analyze_frame(frame) ==
    [has_anomaly |-> frame # "normal", severity |-> frame]

\* lines 253-273: the entry appended for an analysed frame, if any
AnomalyEntry(idx, summary) ==
    IF summary.has_anomaly
    THEN << [frame_idx |-> idx, severity |-> summary.severity] >>
    ELSE << >>

\* line 282: total_frames // sample_interval
AnalyzedFrames(total_frames, interval) == total_frames \div interval

InitVideo ==
    /\ pc = "process_video"
    /\ video \in ScreenVideos
    /\ sample_interval \in 1..MaxInterval
    /\ frame_idx = 0
    /\ analyze_calls = << >>
    /\ anomaly_frames = << >>
    /\ report = << >>
    /\ similarity_threshold = << >>
    /\ max_frames = << >>
    /\ prev_frame = << >>
    /\ extracted_count = << >>
    /\ keyframes = << >>
    /\ json_output = << >>
    /\ lines_done = << >>
    /\ test_results = << >>
    /\ test_blocks = << >>
    /\ given_path = << >>
    /\ test_path = << >>
    /\ param_str = << >>
    /\ params = << >>
    /\ descriptor = << >>
    /\ test_cases = << >>
    /\ file = << >>
    /\ result = << >>
    /\ dart_files = << >>
    /\ file_idx = 0
    /\ results = << >>
    /\ fs = << >>
    /\ run = << >>
    /\ generated = << >>
    /\ generators = << >>
    /\ calls = << >>

\* one iteration of the while loop of lines 245-275 with ret true
ReadVideoFrame ==
    LET Sampled(frame) ==
            /\ analyze_calls' = Append(analyze_calls, frame_idx)
            /\ anomaly_frames' = anomaly_frames
                                   \o AnomalyEntry(frame_idx, analyze_frame(frame))
    IN /\ pc = "process_video"
       /\ frame_idx < Len(video.frames)
       /\ IF frame_idx % sample_interval = 0
          THEN Sampled(video.frames[frame_idx + 1])
          ELSE UNCHANGED <<analyze_calls, anomaly_frames>>
       /\ frame_idx' = frame_idx + 1
       /\ UNCHANGED <<pc, video, report, sample_interval,
                      param_str, params, descriptor, test_cases, file, result,
                      batch_vars, gen_vars, generated, call_vars, path_vars,
                      kf_vars, block_vars, json_vars>>

\* cap.read() returns ret false: the loop ends and the dict is returned
\* (lines 246-248, 277-286)
ReturnVideo ==
    /\ pc = "process_video"
    /\ frame_idx = Len(video.frames)
    /\ report' = [total_frames |-> video.frame_count,
                  analyzed_frames |-> AnalyzedFrames(video.frame_count, sample_interval),
                  anomaly_count |-> Len(anomaly_frames),
                  anomaly_frames |-> anomaly_frames]
    /\ pc' = "processed"
    /\ UNCHANGED <<video, frame_idx, pv_vars,
                   param_str, params, descriptor, test_cases, file, result,
                   batch_vars, gen_vars, generated, call_vars, path_vars,
                   kf_vars, block_vars, json_vars>>

NextVideo == ReadVideoFrame \/ ReturnVideo

SpecVideo == InitVideo /\ [][NextVideo]_vars

----------------------------------------------------------------------------
(* run_tests.py : FlutterTestRunner.parse_json_output over the lines of    *)
(* the machine-readable output of a test run.  A line is an event (a JSON  *)
(* object with a type) or a line json.loads rejects; every test has at     *)
(* most one testDone event and at most one error event, and a test with an *)
(* error event does not end with result success.                           *)

MaxEvents == 4

TestIDs == {1, 2}

TestResult(name, group, status, duration_ms, error_message, stack_trace, file_path, line_number) ==
    [name |-> name, group |-> group, status |-> status,
     duration_ms |-> duration_ms, error_message |-> error_message,
     stack_trace |-> stack_trace, file_path |-> file_path,
     line_number |-> line_number]

\* the testDone events: without a name, as the reporter writes them
TestDoneEvents ==
    {[type |-> "testDone", testID |-> t, result |-> r, hidden |-> h] :
        t \in TestIDs, r \in {"success", "failure"}, h \in BOOLEAN}

\* the stack traces: a text with or without a `<path>.dart:<line>` in it
StackTraces(t) ==
    {[of |-> t, location |-> None],
     [of |-> t, location |-> Some(<<"test/a_test.dart", t>>)]}

\* the error events: the message and the trace name the failing test
ErrorEvents ==
    UNION {{[type |-> "error", testID |-> t, error |-> <<"error of", t>>,
             stackTrace |-> st] : st \in StackTraces(t)} : t \in TestIDs}

NotJson == [type |-> "not json"]

Events == TestDoneEvents \cup ErrorEvents \cup {NotJson}

Outputs ==
    {o \in SeqsUpTo(Events, MaxEvents) :
        \A t \in TestIDs :
            /\ Cardinality({k \in 1..Len(o) :
                   o[k].type = "testDone" /\ o[k].testID = t}) <= 1
            /\ Cardinality({k \in 1..Len(o) :
                   o[k].type = "error" /\ o[k].testID = t}) <= 1
            /\ (\E k \in 1..Len(o) : o[k].type = "error" /\ o[k].testID = t)
                 => ~\E k \in 1..Len(o) :
                        /\ o[k].type = "testDone"
                        /\ o[k].testID = t
                        /\ o[k].result = "success"}

\* lines 139-167: the TestResult appended for a testDone event; without a
\* name the name is f'Test {test_id}', split at its last blank
TestDoneResult(event) ==
    TestResult(ToString(event.testID), "Test",
               IF event.result = "success" THEN "passed" ELSE "failed",
               0, None, None, None, None)

\* lines 179-181, 184-187: one result with the error of the event set
WithError(r, event) ==
    [r EXCEPT !.error_message = Some(event.error),
              !.stack_trace = Some(event.stackTrace),
              !.file_path = IF event.stackTrace.location # None
                            THEN Some(event.stackTrace.location[1][1]) ELSE @,
              !.line_number = IF event.stackTrace.location # None
                              THEN Some(event.stackTrace.location[1][2]) ELSE @]

\* lines 177-188: the first result with status failed takes the error
AttachError(rs, event) ==
    LET Failed == {k \in 1..Len(rs) : rs[k].status = "failed"}
        At(k) == [rs EXCEPT ![k] = WithError(rs[k], event)]
    IN IF Failed = {} THEN rs ELSE At(Min(Failed))

\* the body of the loop of lines 128-188 for one line
HandleLine(rs, event) ==
    IF event.type = "testDone"
    THEN IF event.hidden THEN rs ELSE Append(rs, TestDoneResult(event))
    ELSE IF event.type = "error" THEN AttachError(rs, event)
    ELSE rs

InitJson ==
    /\ pc = "parse_json_output"
    /\ json_output \in Outputs
    /\ lines_done = 0
    /\ test_results = << >>
    /\ video = << >>
    /\ frame_idx = << >>
    /\ report = << >>
    /\ similarity_threshold = << >>
    /\ max_frames = << >>
    /\ prev_frame = << >>
    /\ extracted_count = << >>
    /\ keyframes = << >>
    /\ sample_interval = << >>
    /\ analyze_calls = << >>
    /\ anomaly_frames = << >>
    /\ test_blocks = << >>
    /\ given_path = << >>
    /\ test_path = << >>
    /\ param_str = << >>
    /\ params = << >>
    /\ descriptor = << >>
    /\ test_cases = << >>
    /\ file = << >>
    /\ result = << >>
    /\ dart_files = << >>
    /\ file_idx = 0
    /\ results = << >>
    /\ fs = << >>
    /\ run = << >>
    /\ generated = << >>
    /\ generators = << >>
    /\ calls = << >>

\* one iteration of the for loop of line 128
ParseLine ==
    /\ pc = "parse_json_output"
    /\ lines_done < Len(json_output)
    /\ test_results' = HandleLine(test_results, json_output[lines_done + 1])
    /\ lines_done' = lines_done + 1
    /\ UNCHANGED <<pc, json_output,
                   param_str, params, descriptor, test_cases, file, result,
                   batch_vars, gen_vars, generated, call_vars, path_vars,
                   video_vars, kf_vars, pv_vars, block_vars>>

\* line 190: return results
ReturnResults ==
    /\ pc = "parse_json_output"
    /\ lines_done = Len(json_output)
    /\ pc' = "parsed_json"
    /\ UNCHANGED <<json_vars,
                   param_str, params, descriptor, test_cases, file, result,
                   batch_vars, gen_vars, generated, call_vars, path_vars,
                   video_vars, kf_vars, pv_vars, block_vars>>

NextJson == ParseLine \/ ReturnResults

SpecJson == InitJson /\ [][NextJson]_vars

----------------------------------------------------------------------------
(* Properties of parse_parameters                                          *)

\* the loop of parse_parameters that produced entry i of its result
GroupOf(s, i) ==
    IF i <= Len(PositionalParams(s)) THEN "positional"
    ELSE IF i <= Len(PositionalParams(s)) + Len(NamedParams(s)) THEN "brace"
    ELSE "bracket"

\* C7: every Parameter returned by parse_parameters falls in exactly one
\* group: it is is_named iff it came from the brace group, it is
\* is_required=false and is_named=false iff it came from the bracket group,
\* and every other (plain positional) entry is is_required=true and
\* is_named=false.
C7_ParameterGroups ==
    pc = "parsed" =>
        /\ Len(params) = Len(PositionalParams(param_str)) + Len(NamedParams(param_str))
                            + Len(OptionalParams(param_str))
        /\ \A i \in 1..Len(params) :
            /\ params[i].is_named <=> (GroupOf(param_str, i) = "brace")
            /\ (~params[i].is_required /\ ~params[i].is_named)
                    <=> (GroupOf(param_str, i) = "bracket")
            /\ (GroupOf(param_str, i) = "positional")
                    => (params[i].is_required /\ ~params[i].is_named)

\* parse_parameters returned entries from all three groups
C7_Witness ==
    /\ pc = "parsed"
    /\ \E i, j, k \in 1..Len(params) :
        /\ GroupOf(param_str, i) = "positional"
        /\ GroupOf(param_str, j) = "brace"
        /\ GroupOf(param_str, k) = "bracket"

----------------------------------------------------------------------------
(* Properties of infer_test_cases                                          *)

PredicateWords ==
    { <<"v","a","l","i","d","a","t","e">>, <<"i","s">>, <<"h","a","s">>,
      <<"c","a","n">>, <<"c","h","e","c","k">> }

PredicateHint(name) == \E w \in PredicateWords : Contains(ToLower(name), w)

\* the group of the fixed order a test case belongs to
Rank(tc) ==
    IF tc.assertion_type \in {"isTrue", "isFalse"} THEN 1
    ELSE IF tc.category = "normal" THEN 2
    ELSE IF tc.category = "boundary" THEN 3
    ELSE IF tc.category = "error" THEN 4
    ELSE 5

\* the test cases of one group, in list order
OfRank(tcs, r) ==
    LET Test(tc) == Rank(tc) = r
    IN SelectSeq(tcs, Test)

\* the input_values keys of a list of test cases, first key of each
ProbedNames(tcs) == [i \in 1..Len(tcs) |-> tcs[i].input_values[1][1]]

\* keys follows the order of names, a name probed any number of times
RECURSIVE InParamOrder(_, _)
InParamOrder(keys, names) ==
    IF keys = << >> THEN TRUE
    ELSE IF names = << >> THEN FALSE
    ELSE IF Head(keys) = Head(names) THEN InParamOrder(Tail(keys), names)
    ELSE InParamOrder(keys, Tail(names))

ParamNames(f) == [k \in 1..Len(f.parameters) |-> f.parameters[k].name]

\* C8: the list returned by infer_test_cases is, in this order, the
\* predicate pair (isTrue, isFalse; present only for a bool return type or
\* a predicate name hint), exactly one generic normal test (equals,
\* placeholder expected), the boundary tests, the error (throws) tests and
\* the security tests, each of the last three in parameter order; no test
\* of a later group precedes a test of an earlier group.
C8_InferOrder ==
    pc = "inferred" =>
        LET n    == Len(test_cases)
            pair == OfRank(test_cases, 1)
            norm == OfRank(test_cases, 2)
        IN /\ \A i \in 1..(n - 1) : Rank(test_cases[i]) <= Rank(test_cases[i + 1])
           /\ IF descriptor.return_type = Some(t_bool) \/ PredicateHint(descriptor.name)
              THEN /\ Len(pair) = 2
                   /\ pair[1].assertion_type = "isTrue"
                   /\ pair[2].assertion_type = "isFalse"
              ELSE pair = << >>
           /\ Len(norm) = 1
           /\ norm[1].assertion_type = "equals"
           /\ norm[1].expected = PlaceholderExpected
           /\ \A i \in 1..n : Rank(test_cases[i]) = 4 <=> test_cases[i].assertion_type = "throws"
           /\ \A r \in {3, 4, 5} :
                InParamOrder(ProbedNames(OfRank(test_cases, r)), ParamNames(descriptor))

\* a result holding tests of all five groups
C8_Witness ==
    /\ pc = "inferred"
    /\ \A r \in 1..5 : \E i \in 1..Len(test_cases) : Rank(test_cases[i]) = r
    /\ Len(descriptor.parameters) = 2

\* the boundary probes the claim gives a parameter, by its type
BoundaryProbes(param) ==
    LET bare == Strip(Replace(param.type[1], <<"?">>, << >>))
    IN IF param.type = None THEN << >>
       ELSE IF bare = t_String THEN << "\"\"" >>
       ELSE IF bare \in {t_int, t_double, t_num} THEN << "0", "-1" >>
       ELSE IF Contains(bare, t_List) THEN << "[]" >>
       ELSE << >>

ExpectedBoundaryInputs(f) ==
    Concat([k \in 1..Len(f.parameters) |->
              [j \in 1..Len(BoundaryProbes(f.parameters[k])) |->
                  << <<f.parameters[k].name, BoundaryProbes(f.parameters[k])[j]>> >>]])

\* C10: each boundary test has an input_values mapping with exactly one
\* key, the probed parameter; a String parameter yields one boundary test
\* (empty string), an int/double/num parameter two (zero, then negative), a
\* List-like parameter one (empty list), any other or untyped parameter none.
C10_BoundaryPerParameter ==
    pc = "inferred" =>
        LET boundary == OfRank(test_cases, 3)
        IN /\ \A i \in 1..Len(boundary) : Len(boundary[i].input_values) = 1
           /\ [i \in 1..Len(boundary) |-> boundary[i].input_values]
                = ExpectedBoundaryInputs(descriptor)

\* a function with a single int parameter got its two boundary tests
C10_Witness ==
    /\ pc = "inferred"
    /\ Len(descriptor.parameters) = 1
    /\ descriptor.parameters[1].type = Some(t_int)
    /\ Len(OfRank(test_cases, 3)) = 2

----------------------------------------------------------------------------
(* Properties of analyze                                                   *)

Analyzed == pc \in {"analyzed", "inferred", "rendered"}

\* C3: analyze returns, for a file that cannot be read, a result whose
\* errors list has exactly one entry and whose top_level_functions, classes
\* and imports are empty and part_of absent; for every file that is read
\* successfully, errors is empty.
C3_ReadErrorRecorded ==
    Analyzed =>
        /\ ~file.readable =>
            /\ Len(result.errors) = 1
            /\ result.top_level_functions = << >>
            /\ result.classes = << >>
            /\ result.imports = << >>
            /\ result.part_of = None
        /\ file.readable => result.errors = << >>

\* analyze has returned for an unreadable file
C3_Witness ==
    /\ pc = "analyzed"
    /\ ~file.readable
    /\ Len(result.errors) = 1

\* the function-shaped matches of the text whose start offset lies inside
\* the body (opening brace to closing brace) of a matched class
MatchesInClassBody(content) ==
    LET cms == class_matches(content)
        fms == function_matches(content)
    IN {k \in 1..Len(fms) :
          \E c \in 1..Len(cms) :
              /\ ClassBody(content, cms[c])[1] <= fms[k].start
              /\ fms[k].start <= ClassBody(content, cms[c])[2]}

\* a function match appears in top_level_functions: an entry carries the
\* line number of the match start
Retained(content, func_match, fns) ==
    \E i \in 1..Len(fns) : fns[i].line_number = LineNumberAt(content, func_match.start)

\* C5: no function-shaped match whose start offset lies inside the body
\* range of a matched class appears in top_level_functions.
C5_ClassBodyExcluded ==
    (Analyzed /\ file.readable) =>
        \A k \in MatchesInClassBody(file.content) :
            ~Retained(file.content, function_matches(file.content)[k],
                      result.top_level_functions)

\* a text with a function-shaped match inside a class body and another one
\* outside, which was retained
C5_Witness ==
    /\ pc = "analyzed"
    /\ file.readable
    /\ MatchesInClassBody(file.content) # {}
    /\ result.top_level_functions # << >>

\* C6: for every matched class C, no entry of C.methods has a name equal to
\* C's name.
C6_ConstructorNotCollected ==
    Analyzed =>
        \A c \in 1..Len(result.classes) :
            \A k \in 1..Len(result.classes[c].methods) :
                result.classes[c].methods[k].name # result.classes[c].name

\* a class whose body holds a method-shaped match named like the class,
\* next to a collected method
C6_Witness ==
    /\ pc = "analyzed"
    /\ file.readable
    /\ \E c \in 1..Len(result.classes) :
        LET cm   == class_matches(file.content)[c]
            body == Slice(file.content, ClassBody(file.content, cm)[1],
                          ClassBody(file.content, cm)[2])
            ms   == method_matches(body)
        IN /\ \E k \in 1..Len(ms) : ms[k].name = cm.name
           /\ result.classes[c].methods # << >>

\* what the claim lists for one test case: assertion, category, inputs
Shape(tc) == << tc.assertion_type, tc.category, tc.input_values >>

n_email == <<"e","m","a","i","l">>

\* C9: for the text whose only declaration is
\* `bool isValidEmail(String email)` with a body, analyze returns one
\* top-level function with return type bool, and infer_test_cases returns
\* exactly six test cases: isTrue, isFalse, the generic normal test, the
\* empty-string boundary test for email, the markup probe and the
\* query-injection probe for email; no throws test.
C9_ScenarioA ==
    (pc = "inferred" /\ file.readable /\ file.content = ScenarioA) =>
        /\ Len(result.top_level_functions) = 1
        /\ result.top_level_functions[1].return_type = Some(t_bool)
        /\ Len(test_cases) = 6
        /\ test_cases[1].assertion_type = "isTrue"
        /\ test_cases[2].assertion_type = "isFalse"
        /\ test_cases[3].assertion_type = "equals" /\ test_cases[3].category = "normal"
        /\ Shape(test_cases[4]) = << "equals", "boundary", << <<n_email, "\"\"">> >> >>
        /\ Shape(test_cases[5]) = << "equals", "security", << <<n_email, XssProbe>> >> >>
        /\ Shape(test_cases[6]) = << "equals", "security", << <<n_email, SqlProbe>> >> >>
        /\ \A i \in 1..6 : test_cases[i].assertion_type # "throws"

----------------------------------------------------------------------------
(* Properties of the directory mode of analyze_dart.main                   *)

\* the files of dart_files[1..n] that are not skipped, in order
NonSkipped(n) ==
    LET Kept(f) == ~Skipped(f)
    IN SelectSeq(SubSeq(dart_files, 1, n), Kept)

n_isValidEmail == <<"i","s","V","a","l","i","d","E","m","a","i","l">>

\* the entry of results for file f records the read failure of an
\* unreadable file and is what analyze returns for a readable one
EntryFor(entry, f) ==
    /\ entry.file_path = f.path
    /\ ~f.readable =>
          /\ entry.errors = << ReadError >>
          /\ entry.top_level_functions = << >>
          /\ entry.classes = << >>
    /\ f.readable =>
          /\ entry.errors = << >>
          /\ entry = analyze(f)
          /\ f.content = ScenarioA =>
                /\ Len(entry.top_level_functions) = 1
                /\ entry.top_level_functions[1].name = n_isValidEmail

\* C4: in directory mode a read failure does not stop the batch: the run
\* exits early only when the glob found nothing, and after every step of
\* the loop the result list holds one entry per non-skipped file visited so
\* far, in order, an unreadable file's entry carrying the error and a
\* readable file's entry being its full analysis, wherever the unreadable
\* file comes in the order.
C4_BatchContinues ==
    /\ pc = "exit_1" => dart_files = << >>
    /\ pc \in {"for", "printed"} =>
          LET seen == NonSkipped(file_idx - 1)
          IN /\ Len(results) = Len(seen)
             /\ \A k \in 1..Len(seen) : EntryFor(results[k], seen[k])
    /\ pc = "printed" => file_idx = Len(dart_files) + 1

\* an unreadable file came first and a readable one after it was analyzed
C4_Witness ==
    /\ pc = "printed"
    /\ Len(results) >= 2
    /\ results[1].errors # << >>
    /\ \E k \in 2..Len(results) :
          /\ results[k].errors = << >>
          /\ results[k].top_level_functions # << >>

----------------------------------------------------------------------------
(* Properties of generate_tests.main                                       *)

\* the path the last run was to write: --output, or the derived test path
TargetOf(a) ==
    IF a.output # None THEN a.output[1] ELSE get_test_file_path(a.source)

\* the last run got as far as choosing its output (lines 502-530 passed)
ReachedOutput(r) ==
    /\ Exists(r.fs_before, r.args.source)
    /\ Suffix(r.args.source) = s_dart

\* C1: a run without --dry-run and without --force whose output path
\* already exists as a file writes nothing: the file system after the run,
\* the existing file's content included, is what it was before, and the
\* exit status is not zero.
C1_NoOverwriteWithoutForce ==
    (/\ pc = "exited"
     /\ ~run[1].args.dry_run
     /\ ~run[1].args.force
     /\ TargetOf(run[1].args) \in DOMAIN run[1].fs_before
     /\ run[1].fs_before[TargetOf(run[1].args)].kind = "file")
    => /\ fs = run[1].fs_before
       /\ fs[TargetOf(run[1].args)].content
             = run[1].fs_before[TargetOf(run[1].args)].content
       /\ run[1].exit_status # 0

\* the run reached the overwrite check on an existing file
C1_Witness ==
    /\ pc = "exited"
    /\ ~run[1].args.dry_run
    /\ ~run[1].args.force
    /\ ReachedOutput(run[1])
    /\ TargetOf(run[1].args) \in DOMAIN run[1].fs_before
    /\ run[1].fs_before[TargetOf(run[1].args)].kind = "file"
    /\ run[1].exit_status = 1

\* C2: a run with --dry-run never changes the file system, whatever
\* --output and --force are and whether or not the output file exists: no
\* file or directory is created, truncated or overwritten; once the source
\* is found to be a Dart file the rendered text is printed and the exit
\* status is zero.
C2_DryRunWritesNothing ==
    (pc = "exited" /\ run[1].args.dry_run)
    => /\ fs = run[1].fs_before
       /\ ReachedOutput(run[1]) =>
             /\ run[1].exit_status = 0
             /\ \E k \in 1..Len(run[1].stdout) :
                   /\ Len(run[1].stdout[k]) > 0
                   /\ run[1].stdout[k][1]
                         = "import 'package:flutter_test/flutter_test.dart';"

\* a dry run with --force and --output whose directory does not exist yet
C2_Witness ==
    /\ pc = "exited"
    /\ run[1].args.dry_run
    /\ run[1].args.force
    /\ run[1].args.output = Some(path_out_t)
    /\ ReachedOutput(run[1])
    /\ path_out \notin DOMAIN run[1].fs_before
    /\ run[1].exit_status = 0

----------------------------------------------------------------------------
(* Properties of generate_test_code on the result of analyze               *)

\* the class names generate_test_code declares a `sut` for, in order
SutNames(code) ==
    LET IsLate(i) == code[i] = "    late "
        Names(idx) ==
            [k \in 1..Len(idx) |->
                Slice(code, idx[k] + 1, FirstIn(code, idx[k], {" sut;"}) - 1)]
    IN Names(SelectSeq([i \in 1..Len(code) |-> i], IsLate))

\* the names of the classes of the result that are not abstract, in order
ConcreteNames(res) ==
    LET Concrete(cls) == ~cls.is_abstract
        Names(cs) == [k \in 1..Len(cs) |-> cs[k].name]
    IN Names(SelectSeq(res.classes, Concrete))

\* the number of test blocks due for the public functions of fns
TestsDue(fns) ==
    SumSeq([k \in 1..Len(fns) |->
              IF fns[k].is_private THEN 0 ELSE Len(infer_test_cases(TestGenerator, fns[k]))])

\* the number of test blocks due for the classes that are not abstract
ClassTestsDue(res) ==
    SumSeq([c \in 1..Len(res.classes) |->
              IF res.classes[c].is_abstract THEN 0
              ELSE TestsDue(res.classes[c].methods)])

\* C11: a class whose declaration starts with `abstract` is in classes with
\* is_abstract = true (and no other class is), and the text of
\* generate_test_code declares a sut and a setUp for the classes that are
\* not abstract only, and holds no test block beyond those of the top-level
\* functions and of the methods of the classes that are not abstract.
C11_AbstractClassSkipped ==
    pc = "rendered" =>
        /\ Len(result.classes) = Len(class_matches(file.content))
        /\ \A c \in 1..Len(result.classes) :
              result.classes[c].is_abstract
                = StartsWithAt(file.content, class_matches(file.content)[c].start,
                               kw_abstract)
        /\ SutNames(generated) = ConcreteNames(result)
        /\ Count(generated, "    setUp(() {") = Len(ConcreteNames(result))
        /\ Count(generated, "test('")
             = TestsDue(result.top_level_functions) + ClassTestsDue(result)

\* the text was generated for a file with an abstract class that has a
\* public method and with a class that is not abstract
C11_Witness ==
    /\ pc = "rendered"
    /\ \E c \in 1..Len(result.classes) :
          /\ result.classes[c].is_abstract
          /\ TestsDue(result.classes[c].methods) > 0
    /\ \E c \in 1..Len(result.classes) : ~result.classes[c].is_abstract
    /\ Count(generated, "test('") > 0

----------------------------------------------------------------------------
(* Properties of repeated calls of infer_test_cases                        *)

\* C12: any two calls of infer_test_cases made with equal descriptors, on
\* the same instance or on different ones and whatever calls came between
\* them, returned equal lists of test cases, and every instance still holds
\* the lookup tables it was constructed with.
C12_InferDeterministic ==
    /\ \A i, j \in 1..Len(calls) :
          calls[i].func = calls[j].func => calls[i].test_cases = calls[j].test_cases
    /\ \A g \in DOMAIN generators : generators[g] = TestGenerator

\* a descriptor was inferred twice on one instance with a call for another
\* descriptor in between, and once more on the other instance
C12_Witness ==
    /\ Len(calls) = 4
    /\ calls[1].func = calls[3].func /\ calls[1].func = calls[4].func
    /\ calls[2].func # calls[1].func
    /\ calls[1].generator = calls[2].generator
    /\ calls[1].generator = calls[3].generator
    /\ calls[4].generator # calls[1].generator
    /\ calls[1].test_cases # << >>
    /\ calls[2].test_cases # calls[1].test_cases

----------------------------------------------------------------------------
(* Properties of the skip test of the directory mode                       *)

\* the file name of a path: the text after its last "/"
FileName(path) == AfterLast(path, <<"/">>)

\* the file name ends with _test.dart or with .g.dart
SuffixSkipped(dart_file) ==
    \/ EndsWith(FileName(dart_file.path), s_test_dart)
    \/ EndsWith(FileName(dart_file.path), s_g_dart)

\* the paths of the files of the listing whose name has neither suffix
PathsDue(listing) ==
    LET Due(f) == ~SuffixSkipped(f)
        Paths(fsq) == [k \in 1..Len(fsq) |-> fsq[k].path]
    IN Paths(SelectSeq(listing, Due))

\* C13: when the loop of the directory mode is over, the results are, in
\* order, one per file of the glob whose file name ends neither with
\* _test.dart nor with .g.dart, and no other file was skipped.
C13_SkipsBySuffixOnly ==
    pc = "printed" =>
        [k \in 1..Len(results) |-> results[k].file_path] = PathsDue(dart_files)

----------------------------------------------------------------------------
(* Properties of the top-level functions and methods analyze extracts      *)

n_main  == <<"m","a","i","n">>
n_build == <<"b","u","i","l","d">>

\* C14: no entry of top_level_functions is named main or build.
C14_NoEntryPoints ==
    Analyzed =>
        \A k \in 1..Len(result.top_level_functions) :
            result.top_level_functions[k].name \notin {n_main, n_build}

\* the text holds a function named main and one named build outside of any
\* class, next to a function that analyze retained
C14_Witness ==
    /\ pc = "analyzed"
    /\ file.readable
    /\ class_matches(file.content) = << >>
    /\ \E k \in 1..Len(function_matches(file.content)) :
          function_matches(file.content)[k].name = n_main
    /\ \E k \in 1..Len(function_matches(file.content)) :
          function_matches(file.content)[k].name = n_build
    /\ result.top_level_functions # << >>

\* the function matches of the text that analyze turns into entries of
\* top_level_functions, in order
KeptMatches(content) ==
    LET Kept(m) ==
            TopLevelEntry(m,
                          [c \in 1..Len(class_matches(content)) |->
                              ClassRange(content, class_matches(content)[c])],
                          Split(content, "\n"), content) # << >>
    IN SelectSeq(function_matches(content), Kept)

\* the text of the body of the c-th class of the text
ClassBodyText(content, c) ==
    Slice(content, ClassBody(content, class_matches(content)[c])[1],
          ClassBody(content, class_matches(content)[c])[2])

\* the method matches of the c-th class of the text that analyze turns into
\* entries of its methods, in order
KeptMethodMatches(content, c) ==
    LET Kept(m) == m.name # class_matches(content)[c].name
    IN SelectSeq(method_matches(ClassBodyText(content, c)), Kept)

\* the header of match m of text t carries the async modifier: as a word
\* before the return type (after an optional static), or between the
\* closing parenthesis of the parameter list and the body
HeaderAsync(t, m) ==
    LET Leading(h, a) ==
            /\ StartsWithAt(h, a, kw_async)
            /\ a + Len(kw_async) <= Len(h)
            /\ h[a + Len(kw_async)] \in SpaceChars
        Header(h) ==
            \/ Leading(h, IF KeywordSpace(h, 1, kw_static) # 0
                          THEN KeywordSpace(h, 1, kw_static) ELSE 1)
            \/ Contains(Slice(h, RFind(h, ")") + 1, Len(h)), kw_async)
    IN Header(Strip(Slice(t, m.start, m.last)))

\* C15: every extracted top-level function and method has is_async = true
\* when its header carries the async modifier, before the return type or
\* after the parameter list, and is_async = false when it carries none.
C15_AsyncModifier ==
    (Analyzed /\ file.readable) =>
        /\ Len(result.top_level_functions) = Len(KeptMatches(file.content))
        /\ \A k \in 1..Len(result.top_level_functions) :
              result.top_level_functions[k].is_async
                = HeaderAsync(file.content, KeptMatches(file.content)[k])
        /\ \A c \in 1..Len(result.classes) :
              \A k \in 1..Len(result.classes[c].methods) :
                  result.classes[c].methods[k].is_async
                    = HeaderAsync(ClassBodyText(file.content, c),
                                  KeptMethodMatches(file.content, c)[k])

\* the 1-based number of the line on which the header of match m of text t
\* begins: the line of the first character of the match that is not white
\* space
HeaderLine(t, m) == LineNumberAt(t, FirstNotIn(t, m.start, SpaceChars))

\* line number L has a line above it and that line is blank
BlankAbove(lines, L) == L >= 2 /\ L - 1 <= Len(lines) /\ Strip(lines[L - 1]) = << >>

\* C16: a declaration whose preceding line is blank has no doc comment:
\* the upward walk of extract_doc_comment stops at the first blank line,
\* for every class and every top-level function.
C16_DocStopsAtBlankLine ==
    (Analyzed /\ file.readable) =>
        /\ \A c \in 1..Len(result.classes) :
              BlankAbove(Split(file.content, "\n"), result.classes[c].line_number)
                => result.classes[c].doc_comment = None
        /\ \A k \in 1..Len(result.top_level_functions) :
              (/\ k <= Len(KeptMatches(file.content))
               /\ BlankAbove(Split(file.content, "\n"),
                             HeaderLine(file.content, KeptMatches(file.content)[k])))
                => result.top_level_functions[k].doc_comment = None

\* the texts of the contiguous run of `///` lines that ends at line idx,
\* top line first
RECURSIVE DocBlockEndingAt(_, _)
DocBlockEndingAt(lines, idx) ==
    IF /\ idx >= 1
       /\ idx <= Len(lines)
       /\ StartsWithAt(Strip(lines[idx]), 1, <<"/","/","/">>)
    THEN Append(DocBlockEndingAt(lines, idx - 1),
                Strip(Slice(Strip(lines[idx]), 4, Len(Strip(lines[idx])))))
    ELSE << >>

\* the doc comment of the declaration on line L: the `///` block that
\* immediately precedes line L, or None
OwnDoc(lines, L) ==
    IF DocBlockEndingAt(lines, L - 1) = << >> THEN None
    ELSE Some(Join(DocBlockEndingAt(lines, L - 1), <<"\n">>))

\* the 1-based number of the file line on which the header of method match
\* m of the c-th class begins
MethodHeaderLine(content, c, m) ==
    LineNumberAt(content,
                 ClassBody(content, class_matches(content)[c])[1] - 1
                    + FirstNotIn(ClassBodyText(content, c), m.start, SpaceChars))

\* C17: the doc_comment of every extracted method is the contiguous `///`
\* block that immediately precedes the line of the file on which the
\* method's own header begins, and absent when there is no such block.
C17_MethodDocIsOwn ==
    (Analyzed /\ file.readable) =>
        \A c \in 1..Len(result.classes) :
            \A k \in 1..Len(result.classes[c].methods) :
                result.classes[c].methods[k].doc_comment
                  = OwnDoc(Split(file.content, "\n"),
                           MethodHeaderLine(file.content, c,
                                            KeptMethodMatches(file.content, c)[k]))

\* C18: the line_number of every extracted top-level function and method is
\* the 1-based number of the file line on which its header begins.
C18_LineNumberOfHeader ==
    (Analyzed /\ file.readable) =>
        /\ \A k \in 1..Len(result.top_level_functions) :
              k <= Len(KeptMatches(file.content)) =>
                result.top_level_functions[k].line_number
                  = HeaderLine(file.content, KeptMatches(file.content)[k])
        /\ \A c \in 1..Len(result.classes) :
              \A k \in 1..Len(result.classes[c].methods) :
                  result.classes[c].methods[k].line_number
                    = MethodHeaderLine(file.content, c,
                                       KeptMethodMatches(file.content, c)[k])

\* the body_preview due to match m of text t, whose last character is the
\* opening brace of the body: the text from that brace to its closing
\* brace, cut to its first max_lines lines
OwnBracePreview(t, m) ==
    Join(Take(Split(Slice(t, m.last, BraceScan(t, m.last, 0)), "\n"), max_lines),
         <<"\n">>)

\* the body_preview due to match m of text t, whose last character is the
\* `=` of `=>`: the text from the arrow to the next semicolon
OwnArrowPreview(t, m) ==
    Strip(Slice(t, m.last, FirstIn(t, m.last, {";"})))

\* match m of text t has a brace body that is closed
BraceBodied(t, m) == t[m.last] = "{" /\ BraceScan(t, m.last, 0) # 0

\* match m of text t has an arrow body that ends with a semicolon
ArrowBodied(t, m) ==
    /\ StartsWithAt(t, m.last, <<"=", ">">>)
    /\ FirstIn(t, m.last, {";"}) # 0

\* C19: the body_preview of a top-level function with a brace body starts
\* at the function's own opening brace and holds the first max_lines lines
\* of its own body at most; for an arrow body it is the function's own
\* `=> ...;` text.
C19_BodyPreviewIsOwn ==
    (Analyzed /\ file.readable) =>
        \A k \in 1..Len(result.top_level_functions) :
            k <= Len(KeptMatches(file.content)) =>
                /\ BraceBodied(file.content, KeptMatches(file.content)[k])
                     => result.top_level_functions[k].body_preview
                          = OwnBracePreview(file.content, KeptMatches(file.content)[k])
                /\ ArrowBodied(file.content, KeptMatches(file.content)[k])
                     => result.top_level_functions[k].body_preview
                          = OwnArrowPreview(file.content, KeptMatches(file.content)[k])

----------------------------------------------------------------------------
(* Properties of the named entries of parse_parameters                     *)

\* the entries of the brace group of s: its comma-separated parts, stripped,
\* without the empty ones
NamedEntries(s) ==
    LET NonEmpty(part) == part # << >>
        Parts(parts) == SelectSeq([k \in 1..Len(parts) |-> Strip(parts[k])], NonEmpty)
    IN IF GroupSearch(s, "{", "}") = None THEN << >>
       ELSE Parts(Split(GroupSearch(s, "{", "}")[1], ","))

\* the entry starts with the word `required` followed by white space
KeywordFirst(entry) == KeywordSpace(entry, 1, kw_required) # 0

\* the name param_pattern binds in the text of an entry as it stands
EntryName(entry) ==
    IF ParamPatternMatch(entry).matched THEN ParamPatternMatch(entry).name
    ELSE << >>

\* the entries of params that came from the brace group
NamedOf(ps) ==
    LET IsNamed(param) == param.is_named
    IN SelectSeq(ps, IsNamed)

\* C20: an entry of the brace group is is_required = true iff it starts with
\* the word `required` as a word of its own; an entry without the keyword,
\* also one whose identifier or type contains the letters "required", is
\* is_required = false and has as name the name bound in its unchanged
\* text.
C20_RequiredKeyword ==
    (pc = "parsed" /\ Len(NamedOf(params)) = Len(NamedEntries(param_str))) =>
        \A k \in 1..Len(NamedOf(params)) :
            /\ NamedOf(params)[k].is_required = KeywordFirst(NamedEntries(param_str)[k])
            /\ ~KeywordFirst(NamedEntries(param_str)[k])
                 => NamedOf(params)[k].name = EntryName(NamedEntries(param_str)[k])

----------------------------------------------------------------------------
(* Properties of a class whose opening brace is never closed               *)

\* the opening brace of the header of class match c has no matching
\* closing brace in the text
Unterminated(content, c) == BraceScan(content, c.last, 0) = 0

\* the methods of class match c when its body is the rest of the text from
\* its opening brace on
RestMethods(content, c) ==
    LET Methods(line_number, class_body, ms) ==
            Concat([k \in 1..Len(ms) |->
                      MethodEntry(ms[k], c.name, line_number,
                                  Split(content, "\n"), class_body)])
        Body(class_body) ==
            Methods(LineNumberAt(content, c.start), class_body,
                    method_matches(class_body))
    IN Body(Slice(content, c.last, Len(content)))

\* the descriptors of the function matches of the text that start after
\* position pos
FunctionsAfter(content, pos) ==
    {parse_function(function_matches(content)[j], Split(content, "\n"), content) :
        j \in {i \in 1..Len(function_matches(content)) :
                  function_matches(content)[i].start > pos}}

\* C21: when the opening brace of a class header has no matching closing
\* brace, the class body extends to the end of the text: the methods of the
\* class are those found in the whole rest of the text, and no function
\* match after the header appears in top_level_functions.
C21_UnterminatedClassBody ==
    (Analyzed /\ file.readable) =>
        \A k \in 1..Len(class_matches(file.content)) :
            Unterminated(file.content, class_matches(file.content)[k]) =>
                /\ result.classes[k].methods
                     = RestMethods(file.content, class_matches(file.content)[k])
                /\ \A i \in 1..Len(result.top_level_functions) :
                      result.top_level_functions[i]
                        \notin FunctionsAfter(file.content,
                                              class_matches(file.content)[k].last)

----------------------------------------------------------------------------
(* Properties of the named constructors of a class                         *)

\* line start s of the text begins the header of a named constructor of
\* the class called name: white space, `name.`, an identifier, a
\* parameter list in parentheses and the `{` or `=` of a body
NamedConstructorAt(t, s, name) ==
    LET Body(cp) ==
            /\ cp # 0
            /\ FirstNotIn(t, cp + 1, SpaceChars) <= Len(t)
            /\ t[FirstNotIn(t, cp + 1, SpaceChars)] \in {"{", "="}
        Params(d, q) ==
            /\ q > d + 1
            /\ q <= Len(t)
            /\ t[q] = "("
            /\ Body(FirstIn(t, q, {")"}))
        Dot(p, d) ==
            /\ StartsWithAt(t, p, name)
            /\ d <= Len(t)
            /\ t[d] = "."
            /\ Params(d, FirstNotIn(t, d + 1, WordChars))
        Header(p) == Dot(p, p + Len(name))
    IN Header(FirstNotIn(t, s, {" ", "\t"}))

\* the positions in the body text of a class called name at which the
\* header of a named constructor begins
NamedConstructorHeaders(body, name) ==
    {FirstNotIn(body, s, {" ", "\t"}) :
        s \in {x \in LineStarts(body) : NamedConstructorAt(body, x, name)}}

\* the position at which the text of method match m begins, after the
\* white space its leading \s* takes
MatchBegin(body, m) == FirstNotIn(body, m.start, SpaceChars)

\* the kept method matches of the c-th class of the text that do not begin
\* at the header of a named constructor, in order
OtherMethodMatches(content, c) ==
    LET Other(m) ==
            MatchBegin(ClassBodyText(content, c), m)
                \notin NamedConstructorHeaders(ClassBodyText(content, c),
                                               class_matches(content)[c].name)
    IN SelectSeq(KeptMethodMatches(content, c), Other)

\* C22 as stated: a named constructor of class C, declared in C's body as
\* `C.name(...)` followed by a body, is collected as an entry of C.methods.
C22_NamedConstructorIsMethod ==
    (Analyzed /\ file.readable) =>
        \A k \in 1..Len(class_matches(file.content)) :
            \A h \in NamedConstructorHeaders(ClassBodyText(file.content, k),
                                             class_matches(file.content)[k].name) :
                \E j \in 1..Len(result.classes[k].methods) :
                    /\ j <= Len(KeptMethodMatches(file.content, k))
                    /\ MatchBegin(ClassBodyText(file.content, k),
                                  KeptMethodMatches(file.content, k)[j]) = h

\* C22 as amended: a named constructor of class C, declared in C's body as
\* `C.name(...)` followed by a body, is never collected: the entries of
\* C.methods are those of the method matches that do not begin at the
\* header of a named constructor, in order.
C22_NamedConstructorNotCollected ==
    (Analyzed /\ file.readable) =>
        \A k \in 1..Len(class_matches(file.content)) :
            /\ Len(result.classes[k].methods)
                 = Len(OtherMethodMatches(file.content, k))
            /\ \A j \in 1..Len(result.classes[k].methods) :
                  result.classes[k].methods[j].name
                    = OtherMethodMatches(file.content, k)[j].name

\* a class with a named constructor in its body and a method next to it
C22_Witness ==
    /\ pc = "analyzed"
    /\ file.readable
    /\ \E k \in 1..Len(class_matches(file.content)) :
          /\ NamedConstructorHeaders(ClassBodyText(file.content, k),
                                     class_matches(file.content)[k].name) # {}
          /\ result.classes[k].methods # << >>

----------------------------------------------------------------------------
(* Properties of the error tests of infer_test_cases                       *)

\* the name fragments that carry the error hint
ErrorHints ==
    { <<"p","a","r","s","e">>, <<"c","o","n","v","e","r","t">>,
      <<"f","e","t","c","h">>, <<"l","o","a","d">>, <<"s","a","v","e">>,
      <<"d","e","l","e","t","e">>, <<"c","r","e","a","t","e">>,
      <<"u","p","d","a","t","e">> }

\* the lower-cased name holds one of the error hints
ErrorHinted(name) == \E h \in ErrorHints : Contains(ToLower(name), h)

\* the parameter is required and is declared with a type that is not
\* marked nullable; a parameter without a declared type admits null
RequiredNonNullable(param) ==
    /\ param.is_required
    /\ param.type # None
    /\ ~Contains(param.type[1], <<"?">>)

\* the parameters of func an error test is due for, in parameter order
ErrorProbed(func) ==
    IF ErrorHinted(func.name) \/ func.is_async
    THEN SelectSeq(func.parameters, RequiredNonNullable)
    ELSE << >>

\* the test cases of category error, in order
ErrorTests(tcs) ==
    LET IsError(tc) == tc.category = "error"
    IN SelectSeq(tcs, IsError)

\* C23: infer_test_cases emits error tests iff the name fired an error hint
\* or is_async is true; it then emits exactly one test with assertion_type
\* throws, category error and input_values {param: null} for every required,
\* non-nullable parameter, in parameter order, and none for the others; no
\* other test is a throws test.
C23_ErrorTests ==
    pc = "inferred" =>
        /\ Len(ErrorTests(test_cases)) = Len(ErrorProbed(descriptor))
        /\ \A k \in 1..Len(ErrorTests(test_cases)) :
              /\ k <= Len(ErrorProbed(descriptor))
              /\ ErrorTests(test_cases)[k].assertion_type = "throws"
              /\ ErrorTests(test_cases)[k].input_values
                   = << <<ErrorProbed(descriptor)[k].name, "null">> >>
        /\ \A k \in 1..Len(test_cases) :
              test_cases[k].assertion_type = "throws"
                  => test_cases[k].category = "error"

\* a function with an error hint in its name that is not async, whose first
\* parameter is optional and whose second is required and non-nullable: one
\* error test, for the second parameter
C23_Witness ==
    /\ pc = "inferred"
    /\ ErrorHinted(descriptor.name)
    /\ ~descriptor.is_async
    /\ Len(descriptor.parameters) = 2
    /\ ~descriptor.parameters[1].is_required
    /\ RequiredNonNullable(descriptor.parameters[2])
    /\ Len(ErrorTests(test_cases)) = 1
    /\ ErrorTests(test_cases)[1].input_values
         = << <<descriptor.parameters[2].name, "null">> >>

----------------------------------------------------------------------------
(* Properties of get_test_file_path                                        *)

\* the path with its trailing `.dart` renamed to `_test.dart`, and nothing
\* else of it changed
RenameExtension(path) ==
    IF EndsWith(path, s_dart)
    THEN Slice(path, 1, Len(path) - Len(s_dart)) \o s_test_dart
    ELSE path

\* C24: when the source path begins with `lib/`, the result is the path with
\* that prefix replaced by `test/` and the trailing `.dart` renamed to
\* `_test.dart`, all intermediate directories kept; otherwise it is the
\* path with only its trailing `.dart` renamed.
C24_TestFilePath ==
    pc = "returned" =>
        test_path =
            IF StartsWithAt(given_path, 1, s_lib)
            THEN <<"t","e","s","t","/">>
                   \o RenameExtension(Slice(given_path, Len(s_lib) + 1, Len(given_path)))
            ELSE RenameExtension(given_path)

----------------------------------------------------------------------------
(* Properties of the loop of extract_keyframes                             *)

\* the image of the keyframe saved most recently
LastSaved == video.frames[keyframes[Len(keyframes)].frame_idx + 1]

\* the frame about to be read is due to be saved: fewer than max_frames
\* keyframes were saved so far and it is the first frame read or its
\* similarity to the keyframe saved most recently is below the threshold
SaveDue ==
    /\ Len(keyframes) < max_frames
    /\ \/ frame_idx = 0
       \/ /\ keyframes # << >>
          /\ calculate_similarity(video, LastSaved, video.frames[frame_idx + 1])
               < similarity_threshold

\* the step reads a frame
FrameRead == pc = "extract_keyframes" /\ frame_idx' = frame_idx + 1

----------------------------------------------------------------------------
(* Properties of the names analyze extracts                                *)

\* the words that open a control-flow statement
ControlWords ==
    { <<"i","f">>, <<"f","o","r">>, <<"w","h","i","l","e">>,
      <<"s","w","i","t","c","h">> }

\* C26: every entry of top_level_functions and of a class's methods is a
\* declaration, not a statement: no entry comes from a control-flow
\* statement `if (...) {`, `for (...) {`, `while (...) {` or
\* `switch (...) {` of a function or method body.
C26_NoControlFlowEntries ==
    (Analyzed /\ file.readable) =>
        /\ \A k \in 1..Len(result.top_level_functions) :
              result.top_level_functions[k].name \notin ControlWords
        /\ \A c \in 1..Len(result.classes) :
              \A k \in 1..Len(result.classes[c].methods) :
                  result.classes[c].methods[k].name \notin ControlWords

----------------------------------------------------------------------------
(* Properties of the positional entries of parse_parameters                *)

\* w is an identifier: a non-empty run of word characters
IsIdentifier(w) == w # << >> /\ \A k \in 1..Len(w) : w[k] \in WordChars

\* the words of s: its parts between blanks, without the empty ones
WordsOf(s) ==
    LET NonEmpty(w) == w # << >>
    IN SelectSeq(Split(s, " "), NonEmpty)

\* s is one positional entry: it has no comma and no brace or bracket group
OneEntry(s) == \A k \in 1..Len(s) : s[k] \notin {",", "{", "}", "[", "]"}

\* C27: parse_parameters on an entry that is a single identifier with no
\* type returns a Parameter whose name is the whole identifier and whose
\* type is absent; on an entry `Type name` it returns type "Type" and name
\* "name".  The identifier is never split between type and name.
C27_IdentifierNotSplit ==
    (pc = "parsed" /\ OneEntry(param_str)) =>
        /\ (Len(WordsOf(param_str)) = 1 /\ IsIdentifier(WordsOf(param_str)[1]))
             => /\ Len(params) = 1
                /\ params[1].name = WordsOf(param_str)[1]
                /\ params[1].type = None
        /\ (/\ Len(WordsOf(param_str)) = 2
            /\ IsIdentifier(WordsOf(param_str)[1])
            /\ IsIdentifier(WordsOf(param_str)[2])
            /\ WordsOf(param_str)[1] # kw_required)
             => /\ Len(params) = 1
                /\ params[1].name = WordsOf(param_str)[2]
                /\ params[1].type = Some(WordsOf(param_str)[1])

----------------------------------------------------------------------------
(* Properties of the test blocks of _generate_test_block                   *)

\* the names declared in the Arrange section of a block: the lines
\* `final <name> = <value>;`
DeclaredNames(block) ==
    {Slice(block[k], 3, FirstIn(block[k], 3, {" = "}) - 1) :
        k \in {i \in 1..Len(block) :
                  Len(block[i]) >= 3 /\ block[i][2] = "  final "}}

\* the name an argument of a call passes: `name`, or the second `name` of
\* `name: name`
ArgumentName(arg) ==
    IF FirstIn(arg, 1, {": "}) = 0 THEN arg
    ELSE Slice(arg, FirstIn(arg, 1, {": "}) + 1, Len(arg))

\* the names passed as arguments in the call expression of a line
LineArguments(line) ==
    LET Names(args) ==
            {ArgumentName(args[k]) : k \in {i \in 1..Len(args) : args[i] # << >>}}
        Between(open, close) == Names(Split(Slice(line, open + 1, close - 1), ", "))
        Call(open) == Between(open, FirstIn(line, open, {")"}))
    IN Call(FirstIn(line, 1, {"("}))

\* the names passed as arguments in the Act call expression of a block: the
\* line `final result = <call>;` or `expect(() => <call>, ...);`
ArgumentNames(block) ==
    UNION {LineArguments(block[k]) :
              k \in {i \in 1..Len(block) :
                        /\ Len(block[i]) >= 3
                        /\ block[i][2] \in {"  final result = ", "  expect(() => "}}}

\* C28: in every test block rendered by _generate_test_block, every
\* parameter name that appears as an argument in the Act call expression is
\* declared by a `final <name> = ...;` line of the block's Arrange section,
\* for boundary, error and security tests as well as for normal tests.
C28_ArgumentsDeclared ==
    pc = "blocks" =>
        \A k \in 1..Len(test_blocks) :
            ArgumentNames(test_blocks[k]) \subseteq DeclaredNames(test_blocks[k])

----------------------------------------------------------------------------
(* Properties of parse_json_output                                         *)

\* the testDone events of the output that are not hidden, in order: the
\* k-th of them is the event the k-th TestResult was built from
ShownTests(o) ==
    LET Shown(e) == e.type = "testDone" /\ ~e.hidden
    IN SelectSeq(o, Shown)

\* the error events of the output for test t
ErrorsOf(o, t) == {k \in 1..Len(o) : o[k].type = "error" /\ o[k].testID = t}

\* C29: for any order of the events, the error message and stack trace of
\* an error event with testID t are attached to the TestResult of the test
\* with that testID and to no other: a test with an error event has that
\* event's error and trace, also when the error event comes before the
\* test's testDone event, and a test without one has none.
C29_ErrorOfSameTest ==
    pc = "parsed_json" =>
        /\ Len(test_results) = Len(ShownTests(json_output))
        /\ \A k \in 1..Len(test_results) :
              k <= Len(ShownTests(json_output)) =>
                  IF ErrorsOf(json_output, ShownTests(json_output)[k].testID) = {}
                  THEN /\ test_results[k].error_message = None
                       /\ test_results[k].stack_trace = None
                  ELSE \E i \in ErrorsOf(json_output, ShownTests(json_output)[k].testID) :
                          /\ test_results[k].error_message = Some(json_output[i].error)
                          /\ test_results[k].stack_trace = Some(json_output[i].stackTrace)

----------------------------------------------------------------------------
(* Properties of process_video                                             *)

\* C30: process_video reports analyzed_frames equal to the number of frames
\* on which analyze_frame was called, the frames with
\* frame_idx % sample_interval = 0, for every frame count n >= 0 and every
\* sample interval k >= 1.
C30_AnalyzedFramesCount ==
    pc = "processed" =>
        /\ report.analyzed_frames = Len(analyze_calls)
        /\ \A i \in 0..(Len(video.frames) - 1) :
              (i % sample_interval = 0)
                  <=> (\E k \in 1..Len(analyze_calls) : analyze_calls[k] = i)

============================================================================
